---- MODULE Spec2Model ----
(***************************************************************************)
(* Model of the HTTP/1.1 server of app/main.go (the Server type and the    *)
(* functions from Chain to sendResponse): the connection loop, the request *)
(* parser, the middleware chain, the router, the endpoint handlers and the *)
(* response writer.                                                        *)
(*                                                                         *)
(* Go strings and byte slices are sequences of one-character strings, so   *)
(* that splitting, trimming, lower-casing, prefix tests, Atoi/Itoa and     *)
(* byte lengths are computed as the code computes them.                    *)
(***************************************************************************)
EXTENDS Integers, Sequences, FiniteSets, TLC

(***************************************************************************)
(* Bounds of the model.                                                    *)
(***************************************************************************)
\* the number of chunks the client of one connection sends
MaxSends == 2

(***************************************************************************)
(* package strings / strconv                                               *)
(***************************************************************************)
UpperLetters == <<"A","B","C","D","E","F","G","H","I","J","K","L","M","N","O","P","Q","R","S","T","U","V","W","X","Y","Z">>
LowerLetters == <<"a","b","c","d","e","f","g","h","i","j","k","l","m","n","o","p","q","r","s","t","u","v","w","x","y","z">>
Digits == <<"0","1","2","3","4","5","6","7","8","9">>

\* unicode.ToLower on one byte of ASCII
LowerChar(ch) ==
    IF \E i \in 1..26 : UpperLetters[i] = ch
    THEN LowerLetters[CHOOSE i \in 1..26 : UpperLetters[i] = ch]
    ELSE ch

\* strings.ToLower
ToLower(s) == [i \in 1..Len(s) |-> LowerChar(s[i])]

\* unicode.IsSpace on ASCII
IsSpace(ch) == ch \in {" ", "\t", "\n", "\r", "\f"}

RECURSIVE TrimLeft(_)
TrimLeft(s) ==
    IF s # << >> /\ IsSpace(Head(s)) THEN TrimLeft(Tail(s)) ELSE s

RECURSIVE TrimRight(_)
TrimRight(s) ==
    IF s # << >> /\ IsSpace(s[Len(s)]) THEN TrimRight(SubSeq(s, 1, Len(s) - 1)) ELSE s

\* strings.TrimSpace
TrimSpace(s) == TrimRight(TrimLeft(s))

\* strings.IndexByte, 1-based; 0 when ch does not occur
IndexByte(s, ch) ==
    IF \E i \in 1..Len(s) : s[i] = ch
    THEN CHOOSE i \in 1..Len(s) : s[i] = ch /\ \A j \in 1..(i - 1) : s[j] # ch
    ELSE 0

\* strings.Split with a one-byte separator: n separators give n+1 parts
RECURSIVE Split(_, _)
Split(s, sep) ==
    LET i == IndexByte(s, sep)
    IN  IF i = 0 THEN << s >>
        ELSE << SubSeq(s, 1, i - 1) >> \o Split(SubSeq(s, i + 1, Len(s)), sep)

\* strings.SplitN(s, sep, 2): split on the first separator only
SplitN2(s, sep) ==
    LET i == IndexByte(s, sep)
    IN  IF i = 0 THEN << s >>
        ELSE << SubSeq(s, 1, i - 1), SubSeq(s, i + 1, Len(s)) >>

\* strings.Join
RECURSIVE JoinStrings(_, _)
JoinStrings(parts, sep) ==
    IF parts = << >> THEN << >>
    ELSE IF Len(parts) = 1 THEN parts[1]
    ELSE parts[1] \o sep \o JoinStrings(Tail(parts), sep)

\* strings.HasPrefix
HasPrefix(s, prefix) ==
    Len(s) >= Len(prefix) /\ SubSeq(s, 1, Len(prefix)) = prefix

\* strings.TrimPrefix
TrimPrefix(s, prefix) ==
    IF HasPrefix(s, prefix) THEN SubSeq(s, Len(prefix) + 1, Len(s)) ELSE s

\* strings.Contains
Contains(s, substr) ==
    \E i \in 1..(Len(s) - Len(substr) + 1) : SubSeq(s, i, i + Len(substr) - 1) = substr

IsDigit(ch) == \E i \in 1..10 : Digits[i] = ch

DigitVal(ch) == (CHOOSE i \in 1..10 : Digits[i] = ch) - 1

RECURSIVE DigitsVal(_)
DigitsVal(s) ==
    IF s = << >> THEN 0 ELSE DigitsVal(SubSeq(s, 1, Len(s) - 1)) * 10 + DigitVal(s[Len(s)])

\* strconv.Atoi: an optional sign and at least one decimal digit, nothing else
Atoi(s) ==
    LET signed == s # << >> /\ Head(s) \in {"+", "-"}
        ds     == IF signed THEN Tail(s) ELSE s
    IN  IF ds # << >> /\ \A i \in 1..Len(ds) : IsDigit(ds[i])
        THEN [ok |-> TRUE,
              val |-> IF signed /\ Head(s) = "-" THEN 0 - DigitsVal(ds) ELSE DigitsVal(ds)]
        ELSE [ok |-> FALSE, val |-> 0]

\* strconv.Itoa for n >= 0 (lengths only)
RECURSIVE Itoa(_)
Itoa(n) ==
    IF n < 10 THEN << Digits[n + 1] >> ELSE Itoa(n \div 10) \o << Digits[(n % 10) + 1] >>

(***************************************************************************)
(* package path/filepath (Unix)                                            *)
(***************************************************************************)
Slash == <<"/">>
Dot == <<".">>
DotDot == <<".",".">>

\* the element loop of filepath.Clean: "" and "." dropped, ".." pops the last
\* element, is dropped at the root and is kept at the start of a relative path
RECURSIVE CleanElems(_, _, _)
CleanElems(elems, out, rooted) ==
    IF elems = << >> THEN out
    ELSE LET e == Head(elems)
             rest == Tail(elems)
         IN  IF e = << >> \/ e = Dot THEN CleanElems(rest, out, rooted)
             ELSE IF e = DotDot
                  THEN IF out # << >> /\ out[Len(out)] # DotDot
                       THEN CleanElems(rest, SubSeq(out, 1, Len(out) - 1), rooted)
                       ELSE IF rooted THEN CleanElems(rest, out, rooted)
                            ELSE CleanElems(rest, Append(out, e), rooted)
                  ELSE CleanElems(rest, Append(out, e), rooted)

\* filepath.Clean: the shortest equivalent path; "." for the empty path
Clean(path) ==
    LET rooted == path # << >> /\ Head(path) = "/"
        body   == JoinStrings(CleanElems(Split(path, "/"), << >>, rooted), Slash)
        res    == IF rooted THEN Slash \o body ELSE body
    IN  IF res = << >> THEN Dot ELSE res

\* filepath.Join of two elements: empty elements ignored, the rest cleaned
Join(a, b) ==
    IF a = << >> /\ b = << >> THEN << >>
    ELSE IF a = << >> THEN Clean(b)
    ELSE IF b = << >> THEN Clean(a)
    ELSE Clean(a \o Slash \o b)

\* index of the last "/" of path, 0 when there is none
LastSlash(path) ==
    IF \E i \in 1..Len(path) : path[i] = "/"
    THEN CHOOSE i \in 1..Len(path) : path[i] = "/" /\ \A j \in (i + 1)..Len(path) : path[j] # "/"
    ELSE 0

\* filepath.Dir: all but the last element, cleaned
Dir(path) == Clean(SubSeq(path, 1, LastSlash(path)))

RECURSIVE StripTrailingSlashes(_)
StripTrailingSlashes(path) ==
    IF path # << >> /\ path[Len(path)] = "/"
    THEN StripTrailingSlashes(SubSeq(path, 1, Len(path) - 1))
    ELSE path

\* filepath.Base: the last element
Base(path) ==
    IF path = << >> THEN Dot
    ELSE LET p == StripTrailingSlashes(path)
             b == SubSeq(p, LastSlash(p) + 1, Len(p))
         IN  IF b = << >> THEN Slash ELSE b

(***************************************************************************)
(* package os: the filesystem is the set of directories and the content of *)
(* every regular file, by absolute path.  A fault is a failure of the      *)
(* environment (permissions, a full disk, an I/O error) injected into one  *)
(* call.                                                                   *)
(***************************************************************************)
Faults == {"none", "mkdir", "stat", "write", "open", "read", "gzipWrite", "gzipClose"}

\* the proper ancestors of a cleaned path
RECURSIVE Ancestors(_)
AncestorsFrom(dir) == {dir} \cup Ancestors(dir)

Ancestors(path) ==
    IF path = Slash \/ path = Dot THEN {} ELSE AncestorsFrom(Dir(path))

\* whether a path or one of its ancestors is a regular file
UnderFile(fs, path) == \E a \in Ancestors(path) \cup {path} : a \in DOMAIN fs.files

\* os.Stat: "dir", "file", "notexist" (ENOENT) or "error" (ENOTDIR, or injected)
Stat(fs, path, fault) ==
    IF fault = "stat" THEN "error"
    ELSE IF path \in fs.dirs THEN "dir"
    ELSE IF path \in DOMAIN fs.files THEN "file"
    ELSE IF UnderFile(fs, path) THEN "error"
    ELSE "notexist"

\* os.MkdirAll: nothing is created when it fails
MkdirAll(fs, path, fault) ==
    IF fault = "mkdir" THEN [err |-> TRUE, fs |-> fs]
    ELSE IF path \in fs.dirs THEN [err |-> FALSE, fs |-> fs]
    ELSE IF UnderFile(fs, path) THEN [err |-> TRUE, fs |-> fs]
    ELSE [err |-> FALSE,
          fs |-> [files |-> fs.files,
                  dirs |-> fs.dirs \cup {path} \cup (Ancestors(path) \ {Dot})]]

\* variant, against which the properties are tried: the file is created empty
WriteFileEmpty(fs, path, data, fault) ==
    IF fault = "write" \/ path \in fs.dirs \/ Dir(path) \notin fs.dirs
    THEN [err |-> TRUE, fs |-> fs]
    ELSE [err |-> FALSE,
          fs |-> [files |-> [p \in DOMAIN fs.files \cup {path} |->
                                IF p = path THEN << >> ELSE fs.files[p]],
                  dirs |-> fs.dirs]]

\* variant, against which the properties are tried: the file is created only when nothing is at the path (O_EXCL)
WriteFileExclusive(fs, path, data, fault) ==
    IF fault = "write" \/ path \in fs.dirs \/ Dir(path) \notin fs.dirs
       \/ path \in DOMAIN fs.files
    THEN [err |-> TRUE, fs |-> fs]
    ELSE [err |-> FALSE,
          fs |-> [files |-> [p \in DOMAIN fs.files \cup {path} |->
                                IF p = path THEN data ELSE fs.files[p]],
                  dirs |-> fs.dirs]]

\* os.WriteFile: creates or truncates the file
WriteFile(fs, path, data, fault) ==
    IF fault = "write" \/ path \in fs.dirs \/ Dir(path) \notin fs.dirs
    THEN [err |-> TRUE, fs |-> fs]
    ELSE [err |-> FALSE,
          fs |-> [files |-> [p \in DOMAIN fs.files \cup {path} |->
                                IF p = path THEN data ELSE fs.files[p]],
                  dirs |-> fs.dirs]]

(***************************************************************************)
(* HTTP status lines, requests and responses                               *)
(***************************************************************************)
StatusOK == "HTTP/1.1 200 OK"
StatusCreated == "HTTP/1.1 201 Created"
StatusBadRequest == "HTTP/1.1 400 Bad Request"
StatusNotFound == "HTTP/1.1 404 Not Found"
StatusMethodNotAllowed == "HTTP/1.1 405 Not Allowed"
StatusConflict == "HTTP/1.1 409 Conflict"
StatusUpgradeRequired == "HTTP/1.1 426 Upgrade Required"
StatusInternalServerError == "HTTP/1.1 500 Internal Server Error"

HTTP11 == <<"H","T","T","P","/","1",".","1">>
GET == <<"G","E","T">>
POST == <<"P","O","S","T">>
CRLF == <<"\r","\n">>
LF == <<"\n">>
SP == <<" ">>

\* a Go map from string to string: a function on the keys that are set
EmptyMap == [k \in {} |-> << >>]

\* m[k] of a Go map: the zero value "" for a key that is not set
MapGet(m, k) == IF k \in DOMAIN m THEN m[k] ELSE << >>

\* m[k] = v
MapSet(m, k, v) == [j \in DOMAIN m \cup {k} |-> IF j = k THEN v ELSE m[j]]

\* Request: Body is << >> for the nil slice; a body that was read has length >= 1
NoRequest ==
    [Method |-> << >>, Path |-> << >>, HTTPVersion |-> << >>, Headers |-> EmptyMap,
     Body |-> << >>]

\* Response: Headers maps a header name to its value, Body is the body bytes
NewResponse(statusLine) ==
    [StatusLine |-> statusLine, Headers |-> EmptyMap, Body |-> << >>]

(***************************************************************************)
(* parseRequestWithReader.  The reader is the bytes received and not yet   *)
(* consumed (buf) and whether the client has closed its side (eof).  A     *)
(* read that needs bytes that have not arrived blocks until they arrive,   *)
(* the stream ends or the read deadline passes.                            *)
(***************************************************************************)
\* the errors of io and of the parser
ErrEOF == "EOF"
ErrClosedByClient == "connection closed by client"
ErrReading == "error reading: i/o timeout"
ErrReadingBody == "error reading request body"
ErrInvalidFormat == "invalid HTTP request format"

\* bufio.Reader.ReadString('\n'): the bytes up to and including the first "\n",
\* io.EOF when the stream ends before one
ReadString(buf, eof) ==
    LET i == IndexByte(buf, "\n")
    IN  IF i > 0
        THEN [kind |-> "line", line |-> SubSeq(buf, 1, i), rest |-> SubSeq(buf, i + 1, Len(buf))]
        ELSE IF eof THEN [kind |-> ErrEOF, line |-> buf, rest |-> << >>]
        ELSE [kind |-> "block", line |-> << >>, rest |-> buf]

\* variant, against which the properties are tried: the first occurrence of a key is kept
ParseHeaderLineFirstWins(headers, line) ==
    LET pair == SplitN2(line, ":")
    IN  IF Len(pair) = 2 /\ ToLower(TrimSpace(pair[1])) \notin DOMAIN headers
        THEN MapSet(headers, ToLower(TrimSpace(pair[1])), TrimSpace(pair[2]))
        ELSE headers

\* one header line: split on the first colon, key trimmed and lower-cased, value
\* trimmed; a line without a colon is skipped
ParseHeaderLine(headers, line) ==
    LET pair == SplitN2(line, ":")
    IN  IF Len(pair) = 2
        THEN MapSet(headers, ToLower(TrimSpace(pair[1])), TrimSpace(pair[2]))
        ELSE headers

\* the line loop: until the empty line that ends the headers
RECURSIVE ReadLines(_, _, _, _)
LineRead(r, eof, requestTarget, headers) ==
    IF r.kind # "line"
    THEN [kind |-> r.kind, requestTarget |-> requestTarget, headers |-> headers,
          rest |-> r.rest]
    ELSE IF r.line = CRLF \/ r.line = LF
    THEN [kind |-> "done", requestTarget |-> requestTarget, headers |-> headers,
          rest |-> r.rest]
    ELSE IF requestTarget = << >>
    THEN ReadLines(r.rest, eof, SubSeq(r.line, 1, Len(r.line) - 1), headers)
    ELSE ReadLines(r.rest, eof, requestTarget,
                   ParseHeaderLine(headers, SubSeq(r.line, 1, Len(r.line) - 1)))

ReadLines(buf, eof, requestTarget, headers) ==
    LineRead(ReadString(buf, eof), eof, requestTarget, headers)

\* variant, against which the properties are tried: the request line split at runs of spaces
ParseRequestLineFields(requestTarget) ==
    SelectSeq(Split(TrimSpace(requestTarget), " "), LAMBDA token : token # << >>)

\* the request line: exactly three tokens between single spaces
ParseRequestLine(requestTarget) == Split(TrimSpace(requestTarget), " ")

ParseResult(kind, err, req, rest) ==
    [kind |-> kind, err |-> err, req |-> req, rest |-> rest]

\* variant, against which the properties are tried: a negative content-length asks for as many bytes
BodyLengthMagnitude(headers) ==
    LET contentLength == Atoi(MapGet(headers, <<"c","o","n","t","e","n","t","-","l","e","n","g","t","h">>))
    IN  IF ~contentLength.ok THEN 0
        ELSE IF contentLength.val < 0 THEN 0 - contentLength.val ELSE contentLength.val

\* the body length the headers ask for: content-length when it parses as a
\* positive integer, else 0 (no body is read)
BodyLength(headers) ==
    LET contentLength == Atoi(MapGet(headers, <<"c","o","n","t","e","n","t","-","l","e","n","g","t","h">>))
    IN  IF contentLength.ok /\ contentLength.val > 0 THEN contentLength.val ELSE 0

\* after the body was read: the request line is split and checked
BuildRequest(parts, headers, body, rest) ==
    IF Len(parts) # 3
    THEN ParseResult("err", ErrInvalidFormat, NoRequest, rest)
    ELSE ParseResult("ok", "nil",
                     [Method |-> parts[1], Path |-> parts[2], HTTPVersion |-> parts[3],
                      Headers |-> headers, Body |-> body],
                     rest)

\* variant, against which the properties are tried: the body is all that has arrived
ReadBodyAvailable(h, n, buf, eof) ==
    IF Len(h.rest) < n
    THEN IF eof THEN ParseResult("err", ErrReadingBody, NoRequest, << >>)
         ELSE ParseResult("block", ErrReadingBody, NoRequest, buf)
    ELSE BuildRequest(ParseRequestLine(h.requestTarget), h.headers,
                      IF n > 0 THEN h.rest ELSE << >>, IF n > 0 THEN << >> ELSE h.rest)

\* io.ReadFull of n body bytes (n = 0: no read, the body stays nil)
ReadBody(h, n, buf, eof) ==
    IF Len(h.rest) < n
    THEN IF eof THEN ParseResult("err", ErrReadingBody, NoRequest, << >>)
         ELSE ParseResult("block", ErrReadingBody, NoRequest, buf)
    ELSE BuildRequest(ParseRequestLine(h.requestTarget), h.headers,
                      SubSeq(h.rest, 1, n), SubSeq(h.rest, n + 1, Len(h.rest)))

\* what follows the line loop
AfterLines(h, buf, eof) ==
    IF h.kind = ErrEOF THEN ParseResult("err", ErrClosedByClient, NoRequest, << >>)
    ELSE IF h.kind = "block" THEN ParseResult("block", ErrReading, NoRequest, buf)
    ELSE ReadBody(h, BodyLength(h.headers), buf, eof)

\* kind "ok": a Request and the unread rest; "err": the error returned; "block":
\* the parser waits for bytes (err is the error it returns when the wait fails)
parseRequestWithReader(buf, eof) ==
    AfterLines(ReadLines(buf, eof, << >>, EmptyMap), buf, eof)

(***************************************************************************)
(* compress/gzip.  The compressed form is the gzip framing (10-byte        *)
(* header, deflate data, 8-byte trailer of checksum and size) around the   *)
(* body as one stored deflate block: the bytes are not entropy-coded, the  *)
(* framing and the change of length are those of gzip.                     *)
(***************************************************************************)
HexDigits == <<"0","1","2","3","4","5","6","7","8","9","a","b","c","d","e","f">>

\* one byte 0..255 as two hex digits
HexByte(n) == HexDigits[(n \div 16) + 1] \o HexDigits[(n % 16) + 1]

GzipHeader == << "1f", "8b", "08", "00", "00", "00", "00", "00", "00", "ff" >>

\* a stored deflate block: BFINAL/BTYPE, LEN, NLEN (little-endian), the literal bytes
DeflateStored(data) ==
    << "01", HexByte(Len(data) % 256), HexByte((Len(data) \div 256) % 256),
       HexByte(255 - (Len(data) % 256)), HexByte(255 - ((Len(data) \div 256) % 256)) >>
    \o data

\* CRC-32 (kept symbolic) and ISIZE, the length modulo 2^32, little-endian
GzipTrailer(data) ==
    << "crc", "crc", "crc", "crc",
       HexByte(Len(data) % 256), HexByte((Len(data) \div 256) % 256), "00", "00" >>

\* variant, against which the properties are tried: the last byte of the data is lost
GzipTruncated(data) ==
    GzipHeader \o DeflateStored(SubSeq(data, 1, Len(data) - 1)) \o GzipTrailer(data)

\* gzip.NewWriter(&buf); gz.Write(data); gz.Close(); buf.Bytes()
Gzip(data) == GzipHeader \o DeflateStored(data) \o GzipTrailer(data)

(***************************************************************************)
(* The endpoint handlers.  A handler is called with x = [req, fs, dir,     *)
(* fault]: the request, the filesystem, the Server's Directory and the     *)
(* environment fault of this call.  It returns the Response, the           *)
(* filesystem it leaves, the stages and handlers that ran (trace) and the  *)
(* filesystem calls it made (ops).                                         *)
(***************************************************************************)
Result(response, fs, trace, ops) ==
    [response |-> response, fs |-> fs, trace |-> trace, ops |-> ops]

\* one library call that can fail, and how it ended
Op(name, path, res) == [op |-> name, path |-> path, res |-> res]

\* the base handler of createMiddlewareChain
notFoundHandler(x) ==
    Result(NewResponse(StatusNotFound), x.fs, << "notFound" >>, << >>)

handleRoot(x) ==
    Result(NewResponse(StatusOK), x.fs, << "handleRoot" >>, << >>)

handleUserAgent(x) ==
    Result([NewResponse(StatusOK) EXCEPT !.Body = MapGet(x.req.Headers, <<"u","s","e","r","-","a","g","e","n","t">>)],
           x.fs, << "handleUserAgent" >>, << >>)

\* variant, against which the properties are tried: the echo of what follows the last separator
handleEchoLastElement(x) ==
    Result([NewResponse(StatusOK) EXCEPT !.Body = Base(x.req.Path)],
           x.fs, << "handleEcho" >>, << >>)

handleEcho(x) ==
    Result([NewResponse(StatusOK) EXCEPT !.Body = TrimPrefix(x.req.Path, <<"/","e","c","h","o","/">>)],
           x.fs, << "handleEcho" >>, << >>)

\* a handler's name put in front of the trace of what it called
Ran(stage, r) == Result(r.response, r.fs, << stage >> \o r.trace, r.ops)

ErrOf(failed) == IF failed THEN "error" ELSE "ok"

\* os.WriteFile returned
uploadWritten(wr, fullPath, done) ==
    Result(NewResponse(IF wr.err THEN StatusInternalServerError ELSE StatusCreated),
           wr.fs, << "handleFileUpload" >>,
           Append(done, Op("WriteFile", fullPath, ErrOf(wr.err))))

\* variant, against which the properties are tried: the upload writes over what exists
uploadStattedOverwrites(x, fullPath, mk, st, done) ==
    IF st \notin {"file", "dir", "notexist"}
    THEN Result(NewResponse(StatusInternalServerError), mk.fs, << "handleFileUpload" >>, done)
    ELSE uploadWritten(WriteFile(mk.fs, fullPath, x.req.Body, x.fault), fullPath, done)

\* os.Stat returned: err == nil is a conflict, an error other than not-exist is 500
uploadStatted(x, fullPath, mk, st, done) ==
    IF st \in {"file", "dir"}
    THEN Result(NewResponse(StatusConflict), mk.fs, << "handleFileUpload" >>, done)
    ELSE IF st # "notexist"
    THEN Result(NewResponse(StatusInternalServerError), mk.fs, << "handleFileUpload" >>, done)
    ELSE uploadWritten(WriteFile(mk.fs, fullPath, x.req.Body, x.fault), fullPath, done)

\* os.MkdirAll succeeded: os.Stat of the target
uploadStat(x, fullPath, mk, st) ==
    uploadStatted(x, fullPath, mk, st,
                  << Op("MkdirAll", Dir(fullPath), "ok"), Op("Stat", fullPath, st) >>)

\* variant, against which the properties are tried: an error of os.MkdirAll ignored
uploadDirMadeUnchecked(x, fullPath, mk) ==
    uploadStat(x, fullPath, mk, Stat(mk.fs, fullPath, x.fault))

\* os.MkdirAll returned
uploadDirMade(x, fullPath, mk) ==
    IF mk.err
    THEN Result(NewResponse(StatusInternalServerError), mk.fs, << "handleFileUpload" >>,
                << Op("MkdirAll", Dir(fullPath), "error") >>)
    ELSE uploadStat(x, fullPath, mk, Stat(mk.fs, fullPath, x.fault))

\* variant, against which the properties are tried: the upload without the check for a missing body
handleFileUploadNoBodyCheck(x, fullPath) ==
    uploadDirMade(x, fullPath, MkdirAll(x.fs, Dir(fullPath), x.fault))

handleFileUpload(x, fullPath) ==
    IF x.req.Body = << >>
    THEN Result(NewResponse(StatusBadRequest), x.fs, << "handleFileUpload" >>, << >>)
    ELSE uploadDirMade(x, fullPath, MkdirAll(x.fs, Dir(fullPath), x.fault))

\* variant, against which the properties are tried: the download without Content-Disposition
downloadReadNoDisposition(x, fullPath) ==
    [StatusLine |-> StatusOK,
     Headers |-> MapSet(EmptyMap, "Content-Type", <<"a","p","p","l","i","c","a","t","i","o","n","/","o","c","t","e","t","-","s","t","r","e","a","m">>),
     Body |-> x.fs.files[fullPath]]

\* the file was opened and read
downloadRead(x, fullPath) ==
    [StatusLine |-> StatusOK,
     Headers |-> MapSet(MapSet(EmptyMap, "Content-Type", <<"a","p","p","l","i","c","a","t","i","o","n","/","o","c","t","e","t","-","s","t","r","e","a","m">>),
                        "Content-Disposition",
                        <<"a","t","t","a","c","h","m","e","n","t",";"," ","f","i","l","e","n","a","m","e","=">> \o Base(fullPath)),
     Body |-> x.fs.files[fullPath]]

\* os.Stat returned: an error or a directory is 404
downloadStatted(x, fullPath, st) ==
    IF st # "file"
    THEN Result(NewResponse(StatusNotFound), x.fs, << "handleFileDownload" >>,
                << Op("Stat", fullPath, st) >>)
    ELSE IF x.fault = "open"
    THEN Result(NewResponse(StatusInternalServerError), x.fs, << "handleFileDownload" >>,
                << Op("Stat", fullPath, st), Op("Open", fullPath, "error") >>)
    ELSE IF x.fault = "read"
    THEN Result(NewResponse(StatusInternalServerError), x.fs, << "handleFileDownload" >>,
                << Op("Stat", fullPath, st), Op("Open", fullPath, "ok"),
                   Op("ReadAll", fullPath, "error") >>)
    ELSE Result(downloadRead(x, fullPath), x.fs, << "handleFileDownload" >>,
                << Op("Stat", fullPath, st), Op("Open", fullPath, "ok"),
                   Op("ReadAll", fullPath, "ok") >>)

handleFileDownload(x, fullPath) == downloadStatted(x, fullPath, Stat(x.fs, fullPath, x.fault))

\* the method switch of handleFiles on the joined path
filesByMethod(x, fullPath) ==
    IF x.req.Method = POST THEN Ran("handleFiles", handleFileUpload(x, fullPath))
    ELSE IF x.req.Method = GET THEN Ran("handleFiles", handleFileDownload(x, fullPath))
    ELSE Result(NewResponse(StatusMethodNotAllowed), x.fs, << "handleFiles" >>, << >>)

\* variant, against which the properties are tried: handleFiles without the check of Server.Directory
filesCheckedNoDirectory(x, filePath) ==
    IF filePath = << >>
    THEN Result(NewResponse(StatusBadRequest), x.fs, << "handleFiles" >>, << >>)
    ELSE IF Contains(filePath, DotDot)
    THEN Result(NewResponse(StatusBadRequest), x.fs, << "handleFiles" >>, << >>)
    ELSE filesByMethod(x, Join(x.dir, filePath))

\* variant, against which the properties are tried: handleFiles refusing only a path with an element that is ..
filesCheckedByElement(x, filePath) ==
    IF x.dir = << >>
    THEN Result(NewResponse(StatusBadRequest), x.fs, << "handleFiles" >>, << >>)
    ELSE IF filePath = << >>
    THEN Result(NewResponse(StatusBadRequest), x.fs, << "handleFiles" >>, << >>)
    ELSE IF \E i \in 1..Len(Split(filePath, "/")) : Split(filePath, "/")[i] = DotDot
    THEN Result(NewResponse(StatusBadRequest), x.fs, << "handleFiles" >>, << >>)
    ELSE filesByMethod(x, Join(x.dir, filePath))

\* the checks of handleFiles on the cleaned path
filesChecked(x, filePath) ==
    IF x.dir = << >>
    THEN Result(NewResponse(StatusBadRequest), x.fs, << "handleFiles" >>, << >>)
    ELSE IF filePath = << >>
    THEN Result(NewResponse(StatusBadRequest), x.fs, << "handleFiles" >>, << >>)
    ELSE IF Contains(filePath, DotDot)
    THEN Result(NewResponse(StatusBadRequest), x.fs, << "handleFiles" >>, << >>)
    ELSE filesByMethod(x, Join(x.dir, filePath))

handleFiles(x) == filesChecked(x, Clean(TrimPrefix(x.req.Path, <<"/","f","i","l","e","s","/">>)))

(***************************************************************************)
(* The middlewares.  A Handler value is the base handler or a middleware   *)
(* wrapped around the next Handler; Handle(h, x) is h.Handle(req).         *)
(***************************************************************************)
RECURSIVE Handle(_, _)

httpVersionMiddleware(next, x) ==
    IF x.req.HTTPVersion # HTTP11
    THEN Result([NewResponse(StatusUpgradeRequired) EXCEPT
                     !.Headers = MapSet(EmptyMap, "Upgrade", HTTP11)],
                x.fs, << "httpVersion" >>, << >>)
    ELSE Ran("httpVersion", Handle(next, x))

\* variant, against which the properties are tried: the method check lets every method through
methodValidationPassAll(next, x) == Ran("methodValidation", Handle(next, x))

methodValidationMiddleware(next, x) ==
    IF x.req.Method # GET /\ x.req.Method # POST
    THEN Result(NewResponse(StatusMethodNotAllowed), x.fs, << "methodValidation" >>, << >>)
    ELSE Ran("methodValidation", Handle(next, x))

\* variant, against which the properties are tried: the header value compared as a whole
AcceptsGzipWholeValue(acceptEncoding) == acceptEncoding = <<"g","z","i","p">>

\* the loop over the comma-separated encodings: whether one of them is gzip
AcceptsGzip(acceptEncoding) ==
    LET encodings == Split(acceptEncoding, ",")
    IN  \E i \in 1..Len(encodings) : TrimSpace(ToLower(encodings[i])) = <<"g","z","i","p">>

\* the response with the compressed body
Compressed(response, compressed) ==
    [response EXCEPT
         !.Body = compressed,
         !.Headers = MapSet(MapSet(response.Headers, "Content-Encoding", <<"g","z","i","p">>),
                            "Content-Length", Itoa(Len(compressed)))]

\* variant, against which the properties are tried: a gzip failure answered 500 instead of the uncompressed response
compressResponseFails500(r, x) ==
    IF <<"a","c","c","e","p","t","-","e","n","c","o","d","i","n","g">> \in DOMAIN x.req.Headers /\ r.response.Body # << >>
       /\ AcceptsGzip(x.req.Headers[<<"a","c","c","e","p","t","-","e","n","c","o","d","i","n","g">>])
    THEN IF x.fault \in {"gzipWrite", "gzipClose"}
         THEN Result(NewResponse(StatusInternalServerError), r.fs,
                     Append(r.trace, "compression"),
                     Append(r.ops, Op("gzip.Write", << >>, "error")))
         ELSE Result(Compressed(r.response, Gzip(r.response.Body)), r.fs,
                     Append(r.trace, "compression"),
                     r.ops \o << Op("gzip.Write", << >>, "ok"),
                                 Op("gzip.Close", << >>, "ok") >>)
    ELSE Result(r.response, r.fs, Append(r.trace, "compression"), r.ops)

\* the response the next handler returned is compressed when the client accepts
\* gzip and the body is not empty; when gzip fails the response is returned as it is
compressResponse(r, x) ==
    IF <<"a","c","c","e","p","t","-","e","n","c","o","d","i","n","g">> \in DOMAIN x.req.Headers /\ r.response.Body # << >>
       /\ AcceptsGzip(x.req.Headers[<<"a","c","c","e","p","t","-","e","n","c","o","d","i","n","g">>])
    THEN IF x.fault = "gzipWrite"
         THEN Result(r.response, r.fs, Append(r.trace, "compression"),
                     Append(r.ops, Op("gzip.Write", << >>, "error")))
         ELSE IF x.fault = "gzipClose"
         THEN Result(r.response, r.fs, Append(r.trace, "compression"),
                     r.ops \o << Op("gzip.Write", << >>, "ok"),
                                 Op("gzip.Close", << >>, "error") >>)
         ELSE Result(Compressed(r.response, Gzip(r.response.Body)), r.fs,
                     Append(r.trace, "compression"),
                     r.ops \o << Op("gzip.Write", << >>, "ok"),
                                 Op("gzip.Close", << >>, "ok") >>)
    ELSE Result(r.response, r.fs, Append(r.trace, "compression"), r.ops)

\* the next handler runs first
compressionMiddleware(next, x) == compressResponse(Handle(next, x), x)

\* variant, against which the properties are tried: the router without the method in its cases
routingAnyMethod(next, x) ==
    IF x.req.Path = Slash
    THEN Ran("routing", handleRoot(x))
    ELSE IF x.req.Path = <<"/","u","s","e","r","-","a","g","e","n","t">>
    THEN Ran("routing", handleUserAgent(x))
    ELSE IF HasPrefix(x.req.Path, <<"/","e","c","h","o","/">>)
    THEN Ran("routing", handleEcho(x))
    ELSE IF HasPrefix(x.req.Path, <<"/","f","i","l","e","s","/">>)
    THEN Ran("routing", handleFiles(x))
    ELSE Ran("routing", Handle(next, x))

\* the switch of routingMiddleware: the first case that matches
routingMiddleware(next, x) ==
    IF x.req.Method = GET /\ x.req.Path = Slash
    THEN Ran("routing", handleRoot(x))
    ELSE IF x.req.Method = GET /\ x.req.Path = <<"/","u","s","e","r","-","a","g","e","n","t">>
    THEN Ran("routing", handleUserAgent(x))
    ELSE IF x.req.Method = GET /\ HasPrefix(x.req.Path, <<"/","e","c","h","o","/">>)
    THEN Ran("routing", handleEcho(x))
    ELSE IF HasPrefix(x.req.Path, <<"/","f","i","l","e","s","/">>)
    THEN Ran("routing", handleFiles(x))
    ELSE Ran("routing", Handle(next, x))

Handle(h, x) ==
    CASE h.mw = "httpVersion" -> httpVersionMiddleware(h.next, x)
      [] h.mw = "methodValidation" -> methodValidationMiddleware(h.next, x)
      [] h.mw = "compression" -> compressionMiddleware(h.next, x)
      [] h.mw = "routing" -> routingMiddleware(h.next, x)
      [] h.mw = "notFound" -> notFoundHandler(x)

\* Chain: the middlewares are wrapped around the handler from the last to the
\* first, so the first one is the outermost
RECURSIVE ChainLoop(_, _, _)
ChainLoop(middlewares, i, handler) ==
    IF i < 1 THEN handler
    ELSE ChainLoop(middlewares, i - 1, [mw |-> middlewares[i], next |-> handler])

Chain(middlewares, handler) == ChainLoop(middlewares, Len(middlewares), handler)

\* variant, against which the properties are tried: the method check declared before the version check
chainMethodFirst ==
    Chain(<< "methodValidation", "httpVersion", "compression", "routing" >>,
          [mw |-> "notFound"])

\* variant, against which the properties are tried: the router declared before the compression
chainRoutingBeforeCompression ==
    Chain(<< "httpVersion", "methodValidation", "routing", "compression" >>,
          [mw |-> "notFound"])

\* Server.Handler, as NewServer sets it
createMiddlewareChain ==
    Chain(<< "httpVersion", "methodValidation", "compression", "routing" >>,
          [mw |-> "notFound"])

(***************************************************************************)
(* sendResponse                                                            *)
(***************************************************************************)
\* variant, against which the properties are tried: the writer without the Content-Length header
sendResponseNoLength(response) ==
    IF response.Body # << >> /\ MapGet(response.Headers, "Content-Type") = << >>
    THEN [response EXCEPT !.Headers = MapSet(response.Headers, "Content-Type", <<"t","e","x","t","/","p","l","a","i","n">>)]
    ELSE response

\* variant, against which the properties are tried: the writer that gives every response a Content-Length
sendResponseLengthAlways(response) ==
    [response EXCEPT
         !.Headers = MapSet(IF response.Body # << >>
                               /\ MapGet(response.Headers, "Content-Type") = << >>
                            THEN MapSet(response.Headers, "Content-Type", <<"t","e","x","t","/","p","l","a","i","n">>)
                            ELSE response.Headers,
                            "Content-Length", Itoa(Len(response.Body)))]

\* the response as it is written: Content-Type and Content-Length are added when
\* the body is not empty.  The bytes are the status line, one line per header in
\* map order (unspecified), an empty line and the body; the written response is
\* kept as the record of these parts.
sendResponse(response) ==
    IF response.Body # << >>
    THEN [response EXCEPT
              !.Headers = MapSet(IF MapGet(response.Headers, "Content-Type") = << >>
                                 THEN MapSet(response.Headers, "Content-Type", <<"t","e","x","t","/","p","l","a","i","n">>)
                                 ELSE response.Headers,
                                 "Content-Length", Itoa(Len(response.Body)))]
    ELSE response

(***************************************************************************)
(* The clients: what one client may send in one write.                     *)
(***************************************************************************)
RootDirectory == <<"/","d">>

ReqRoot == <<"G","E","T"," ","/"," ","H","T","T","P","/","1",".","1","\r","\n","C","o","n","n","e","c","t","i","o","n",":"," ","k","e","e","p","-","a","l","i","v","e","\r","\n","\r","\n">>
ReqEchoGzip == <<"G","E","T"," ","/","e","c","h","o","/","a","b"," ","H","T","T","P","/","1",".","1","\r","\n","A","c","c","e","p","t","-","E","n","c","o","d","i","n","g",":"," ","g","z","i","p","\r","\n","\r","\n">>
ReqEchoClose == <<"G","E","T"," ","/","e","c","h","o","/","a","b"," ","H","T","T","P","/","1",".","1","\r","\n","a","c","c","e","p","t","-","e","n","c","o","d","i","n","g",":"," ","b","r",","," ","G","Z","I","P","\r","\n","C","o","n","n","e","c","t","i","o","n",":"," ","C","l","o","s","e","\r","\n","\r","\n">>
ReqUpload == <<"P","O","S","T"," ","/","f","i","l","e","s","/","a"," ","H","T","T","P","/","1",".","1","\r","\n","C","o","n","t","e","n","t","-","L","e","n","g","t","h",":"," ","2","\r","\n","\r","\n","h","i">>
ReqUploadClose == <<"P","O","S","T"," ","/","f","i","l","e","s","/","a"," ","H","T","T","P","/","1",".","1","\r","\n","C","o","n","t","e","n","t","-","L","e","n","g","t","h",":"," ","2","\r","\n","c","o","n","n","e","c","t","i","o","n",":"," ","c","l","o","s","e","\r","\n","\r","\n","y","o">>
ReqUploadNoBody == <<"P","O","S","T"," ","/","f","i","l","e","s","/","a"," ","H","T","T","P","/","1",".","1","\r","\n","\r","\n">>
ReqDownload == <<"G","E","T"," ","/","f","i","l","e","s","/","a"," ","H","T","T","P","/","1",".","1","\r","\n","\r","\n">>
ReqTraversal == <<"G","E","T"," ","/","f","i","l","e","s","/",".",".","/","x"," ","H","T","T","P","/","1",".","1","\r","\n","\r","\n">>
ReqPut == <<"P","U","T"," ","/","f","i","l","e","s","/","a"," ","H","T","T","P","/","1",".","1","\r","\n","\r","\n">>
ReqOldPut == <<"P","U","T"," ","/","f","i","l","e","s","/","a"," ","H","T","T","P","/","1",".","0","\r","\n","A","c","c","e","p","t","-","E","n","c","o","d","i","n","g",":"," ","g","z","i","p","\r","\n","C","o","n","n","e","c","t","i","o","n",":"," ","c","l","o","s","e","\r","\n","\r","\n">>
ReqOldPost == <<"P","O","S","T"," ","/","f","i","l","e","s","/","a"," ","H","T","T","P","/","1",".","0","\r","\n","C","o","n","t","e","n","t","-","L","e","n","g","t","h",":"," ","2","\r","\n","\r","\n","h","i">>
ReqOldEcho == <<"G","E","T"," ","/","e","c","h","o","/","a","b"," ","H","T","T","P","/","2","\r","\n","A","c","c","e","p","t","-","E","n","c","o","d","i","n","g",":"," ","g","z","i","p","\r","\n","\r","\n">>
ReqNotFound == <<"G","E","T"," ","/","n","o","p","e"," ","H","T","T","P","/","1",".","1","\r","\n","C","o","n","n","e","c","t","i","o","n",":"," ","c","l","o","s","e","\r","\n","\r","\n">>
ReqBadLine == <<"G","E","T"," ","/","\r","\n","\r","\n">>
ReqPartial == <<"G","E","T"," ","/"," ","H","T">>

\* the chunks the clients of the specification Spec choose from
Menu ==
    { ReqRoot, ReqEchoGzip, ReqEchoClose, ReqUpload, ReqUploadClose, ReqUploadNoBody,
      ReqDownload, ReqTraversal, ReqPut, ReqOldPut, ReqOldPost, ReqOldEcho, ReqNotFound,
      ReqBadLine, ReqPartial }

(***************************************************************************)
(* The server: Server.Start accepts connections and runs handleConnection  *)
(* for each in its own goroutine.                                          *)
(***************************************************************************)
VARIABLES
    directory,  \* Server.Directory, "" when --directory was not given
    fs,         \* the filesystem
    pc,         \* per connection: where its handleConnection is
    open,       \* per connection: the server's side of the connection is open
    armed,      \* per connection: the read deadline of this iteration is set
    inbuf,      \* per connection: bytes received and not yet consumed by the reader
    eof,        \* per connection: the client has closed its side
    sent,       \* per connection: the number of writes of the client
    requests,   \* per connection: the requests parsed, in order
    response,   \* per connection: the response of the last dispatch
    trace,      \* per connection: the stages and handlers the last dispatch ran
    ops,        \* per connection: the fallible calls the last dispatch made
    wire,       \* per connection: the responses written, in order
    log         \* per connection: the error lines handleConnection printed

vars ==
    << directory, fs, pc, open, armed, inbuf, eof, sent, requests, response, trace, ops,
       wire, log >>

\* the connections of the specification Spec
Workers == {1}

NoResponse == NewResponse("")

EmptyFiles == [p \in {} |-> << >>]

InitFor(conns) ==
    /\ directory \in {<< >>, RootDirectory}
    /\ fs = [files |-> EmptyFiles,
             dirs |-> IF directory = << >> THEN {Slash} ELSE {Slash, directory}]
    /\ pc = [c \in conns |-> "NotAccepted"]
    /\ open = [c \in conns |-> FALSE]
    /\ armed = [c \in conns |-> FALSE]
    /\ inbuf = [c \in conns |-> << >>]
    /\ eof = [c \in conns |-> FALSE]
    /\ sent = [c \in conns |-> 0]
    /\ requests = [c \in conns |-> << >>]
    /\ response = [c \in conns |-> NoResponse]
    /\ trace = [c \in conns |-> << >>]
    /\ ops = [c \in conns |-> << >>]
    /\ wire = [c \in conns |-> << >>]
    /\ log = [c \in conns |-> << >>]

\* a client writes one chunk of the menu to its connection
ClientSend(c, chunk) ==
    /\ pc[c] \notin {"NotAccepted", "Closed"}
    /\ ~eof[c]
    /\ sent[c] < MaxSends
    /\ inbuf' = [inbuf EXCEPT ![c] = @ \o chunk]
    /\ sent' = [sent EXCEPT ![c] = @ + 1]
    /\ UNCHANGED << directory, fs, pc, open, armed, eof, requests, response, trace, ops,
                    wire, log >>

\* a client closes its side of the connection
ClientClose(c) ==
    /\ pc[c] \notin {"NotAccepted", "Closed"}
    /\ ~eof[c]
    /\ eof' = [eof EXCEPT ![c] = TRUE]
    /\ UNCHANGED << directory, fs, pc, open, armed, inbuf, sent, requests, response, trace,
                    ops, wire, log >>

\* Server.Start: listener.Accept() and go s.handleConnection(conn)
Accept(c) ==
    /\ pc[c] = "NotAccepted"
    /\ pc' = [pc EXCEPT ![c] = "ReadingRequest"]
    /\ open' = [open EXCEPT ![c] = TRUE]
    /\ UNCHANGED << directory, fs, armed, inbuf, eof, sent, requests, response, trace, ops,
                    wire, log >>

\* variant, against which the properties are tried: handleConnection without the deferred Close
noDeferClose(isOpen) == isOpen

\* defer conn.Close()
deferClose(isOpen) == FALSE

\* variant, against which the properties are tried: the return of one handleConnection ends every connection
ReturnClosesAll(c, lines) ==
    /\ pc' = [d \in DOMAIN pc |-> "Closed"]
    /\ open' = [d \in DOMAIN open |-> FALSE]
    /\ armed' = [d \in DOMAIN armed |-> FALSE]
    /\ log' = [log EXCEPT ![c] = @ \o lines]

\* handleConnection returns: the line it printed, if any, and the deferred Close
Return(c, lines) ==
    /\ pc' = [pc EXCEPT ![c] = "Closed"]
    /\ open' = [open EXCEPT ![c] = deferClose(@)]
    /\ armed' = [armed EXCEPT ![c] = FALSE]
    /\ log' = [log EXCEPT ![c] = @ \o lines]

LogLine(line, err) == [line |-> line, err |-> err]

\* what handleConnection prints for a parse error
ParseErrorLines(err) ==
    IF err # ErrEOF THEN << LogLine("Error parsing request:", err) >> ELSE << >>

\* conn.SetReadDeadline at the top of the loop; it can fail
SetReadDeadline(c) ==
    /\ pc[c] = "ReadingRequest"
    /\ ~armed[c]
    /\ \E ok \in BOOLEAN :
          IF ok
          THEN /\ armed' = [armed EXCEPT ![c] = TRUE]
               /\ UNCHANGED << pc, open, log >>
          ELSE Return(c, << LogLine("Error setting read deadline:", "deadline") >>)
    /\ UNCHANGED << directory, fs, inbuf, eof, sent, requests, response, trace, ops, wire >>

\* parseRequestWithReader returned p: a request, or an error that ends the loop
Parsed(c, p) ==
    /\ p.kind # "block"
    /\ inbuf' = [inbuf EXCEPT ![c] = p.rest]
    /\ IF p.kind = "ok"
       THEN /\ requests' = [requests EXCEPT ![c] = Append(@, p.req)]
            /\ pc' = [pc EXCEPT ![c] = "Dispatching"]
            /\ UNCHANGED << open, armed, log >>
       ELSE /\ Return(c, ParseErrorLines(p.err))
            /\ UNCHANGED requests

ParseRequest(c) ==
    /\ pc[c] = "ReadingRequest"
    /\ armed[c]
    /\ Parsed(c, parseRequestWithReader(inbuf[c], eof[c]))
    /\ UNCHANGED << directory, fs, eof, sent, response, trace, ops, wire >>

\* variant, against which the properties are tried: the loop goes on after a read that timed out
TimedOutRetries(c, p) ==
    /\ p.kind = "block"
    /\ armed' = [armed EXCEPT ![c] = FALSE]
    /\ UNCHANGED << pc, open, log >>

\* the read deadline passes while the parser waits for bytes: the read fails
TimedOut(c, p) ==
    /\ p.kind = "block"
    /\ Return(c, ParseErrorLines(p.err))

ReadTimeout(c) ==
    /\ pc[c] = "ReadingRequest"
    /\ armed[c]
    /\ TimedOut(c, parseRequestWithReader(inbuf[c], eof[c]))
    /\ UNCHANGED << directory, fs, inbuf, eof, sent, requests, response, trace, ops, wire >>

\* variant, against which the properties are tried: every request taken as asking to close
connectionCloseAlways(req) == TRUE

\* variant, against which the properties are tried: the header value compared without lower-casing it
connectionCloseExact(req) ==
    /\ <<"c","o","n","n","e","c","t","i","o","n">> \in DOMAIN req.Headers
    /\ req.Headers[<<"c","o","n","n","e","c","t","i","o","n">>] = <<"c","l","o","s","e">>

\* whether the client asked to close the connection
connectionClose(req) ==
    /\ <<"c","o","n","n","e","c","t","i","o","n">> \in DOMAIN req.Headers
    /\ ToLower(req.Headers[<<"c","o","n","n","e","c","t","i","o","n">>]) = <<"c","l","o","s","e">>

\* response.Headers["Connection"] = "close" when the client asked for it
addConnectionClose(resp, req) ==
    IF connectionClose(req)
    THEN [resp EXCEPT !.Headers = MapSet(@, "Connection", <<"c","l","o","s","e">>)]
    ELSE resp

\* the request being handled: the last one parsed
CurrentRequest(c) == requests[c][Len(requests[c])]

\* the handler returned r
Dispatched(c, r) ==
    /\ fs' = r.fs
    /\ response' = [response EXCEPT ![c] = addConnectionClose(r.response, CurrentRequest(c))]
    /\ trace' = [trace EXCEPT ![c] = r.trace]
    /\ ops' = [ops EXCEPT ![c] = r.ops]

\* s.Handler.Handle(request), then the Connection header
Dispatch(c) ==
    /\ pc[c] = "Dispatching"
    /\ \E fault \in Faults :
          Dispatched(c, Handle(createMiddlewareChain,
                               [req |-> CurrentRequest(c), fs |-> fs, dir |-> directory,
                                fault |-> fault]))
    /\ pc' = [pc EXCEPT ![c] = "WritingResponse"]
    /\ UNCHANGED << directory, open, armed, inbuf, eof, sent, requests, wire, log >>

\* variant, against which the properties are tried: the loop goes back to the handler without reading a request
loopSkipsRead(close) == IF close THEN "Closed" ELSE "Dispatching"

\* variant, against which the properties are tried: the loop goes back to the write
loopRewrites(close) == IF close THEN "Closed" ELSE "WritingResponse"

\* after a response was written: return, or the next iteration of the loop
loopAfterWrite(close) == IF close THEN "Closed" ELSE "ReadingRequest"

\* the response was written: handleConnection returns or loops
Written(c, to) ==
    IF to = "Closed"
    THEN Return(c, << >>)
    ELSE /\ pc' = [pc EXCEPT ![c] = to]
         /\ armed' = [armed EXCEPT ![c] = FALSE]
         /\ UNCHANGED << open, log >>

\* sendResponse and what follows it; conn.Write can fail
WriteResponse(c) ==
    /\ pc[c] = "WritingResponse"
    /\ \E ok \in BOOLEAN :
          IF ok
          THEN /\ wire' = [wire EXCEPT ![c] = Append(@, sendResponse(response[c]))]
               /\ Written(c, loopAfterWrite(connectionClose(CurrentRequest(c))))
          ELSE /\ Return(c, << LogLine("Error sending response:", "write") >>)
               /\ UNCHANGED wire
    /\ UNCHANGED << directory, fs, inbuf, eof, sent, requests, response, trace, ops >>

NextFor(conns, chunks) ==
    \E c \in conns :
        \/ \E chunk \in chunks : ClientSend(c, chunk)
        \/ ClientClose(c)
        \/ Accept(c)
        \/ SetReadDeadline(c)
        \/ ParseRequest(c)
        \/ ReadTimeout(c)
        \/ Dispatch(c)
        \/ WriteResponse(c)

Init == InitFor(Workers)

Next == NextFor(Workers, Menu)

Spec == Init /\ [][Next]_vars


(***************************************************************************)
(* The claims.  What they use of a request or a response is computed here  *)
(* from the words of the claim, not taken from the handlers.               *)
(***************************************************************************)
Conns == DOMAIN pc

HeaderClose == <<"c","l","o","s","e">>

\* the request carries a connection header equal to "close", case-insensitively
WantsClose(req) ==
    \E k \in DOMAIN req.Headers : k = <<"c","o","n","n","e","c","t","i","o","n">> /\ ToLower(req.Headers[k]) = HeaderClose

\* the response carries the header Connection: close
SaysClose(resp) ==
    "Connection" \in DOMAIN resp.Headers /\ resp.Headers["Connection"] = HeaderClose

LastRequest(c) == requests[c][Len(requests[c])]

\* handleConnection printed that the write of a response failed
WriteErrorLogged(c) ==
    \E i \in 1..Len(log[c]) : log[c][i].line = "Error sending response:"

\* a response of connection c was written in this step
WroteResponse(c) == Len(wire'[c]) = Len(wire[c]) + 1

Is4xx(statusLine) ==
    statusLine \in {StatusBadRequest, StatusNotFound, StatusMethodNotAllowed, StatusConflict,
                    StatusUpgradeRequired}

\* C1: after the response to a request that does not ask to close is written, the
\* connection stays open and the loop is back at reading the next request from
\* the same connection, with nothing of its input lost.
C1_KeepAliveLoops ==
    [][\A c \in Conns :
          (pc[c] = "WritingResponse" /\ ~WantsClose(LastRequest(c)) /\ WroteResponse(c))
          => /\ pc'[c] = "ReadingRequest"
             /\ open'[c]
             /\ inbuf'[c] = inbuf[c]
             /\ Len(wire'[c]) = Len(requests'[c])]_vars

\* C1 witness: two requests without Connection: close got two responses on one
\* connection, which is still open and reading.
C1_TwoResponses ==
    \E c \in Conns :
        /\ Len(requests[c]) = 2 /\ Len(wire[c]) = 2
        /\ ~WantsClose(requests[c][1]) /\ ~WantsClose(requests[c][2])
        /\ open[c] /\ pc[c] = "ReadingRequest"

\* C2: a request that asks to close (in any letter case) is the last one parsed on
\* its connection; its response carries Connection: close, whatever the status,
\* and once that response is written the connection is closed.
C2_CloseHonoured ==
    \A c \in Conns : \A i \in 1..Len(requests[c]) :
        WantsClose(requests[c][i])
        => /\ i = Len(requests[c])
           /\ pc[c] = "WritingResponse" => SaysClose(response[c])
           /\ Len(wire[c]) >= i
              => (SaysClose(wire[c][i]) /\ pc[c] = "Closed" /\ ~open[c])

\* C2 witness: the second request asked with "Connection: Close"; its response was
\* written with Connection: close and the connection is closed.
C2_ClosedAfterClose ==
    \E c \in Conns :
        /\ Len(requests[c]) = 2 /\ Len(wire[c]) = 2
        /\ MapGet(requests[c][2].Headers, <<"c","o","n","n","e","c","t","i","o","n">>) = <<"C","l","o","s","e">>
        /\ SaysClose(wire[c][2])
        /\ pc[c] = "Closed"

\* the steps between phases the claim allows (NotAccepted is the connection
\* before Server.Start accepted it)
PhaseSteps ==
    { << "NotAccepted", "ReadingRequest" >>, << "ReadingRequest", "Dispatching" >>,
      << "Dispatching", "WritingResponse" >>, << "WritingResponse", "ReadingRequest" >>,
      << "WritingResponse", "Closed" >>, << "ReadingRequest", "Closed" >> }

\* C3: a connection only moves ReadingRequest -> Dispatching -> WritingResponse ->
\* (ReadingRequest or Closed), or ReadingRequest -> Closed; a request is parsed
\* only in the step ReadingRequest -> Dispatching, a response is made only in
\* Dispatching -> WritingResponse and written only from WritingResponse, never
\* more responses than requests; nothing happens on a closed connection.
C3_Phases ==
    [][\A c \in Conns :
          /\ pc'[c] # pc[c] => << pc[c], pc'[c] >> \in PhaseSteps
          /\ requests'[c] # requests[c]
             => (pc[c] = "ReadingRequest" /\ pc'[c] = "Dispatching")
          /\ response'[c] # response[c]
             => (pc[c] = "Dispatching" /\ pc'[c] = "WritingResponse")
          /\ wire'[c] # wire[c]
             => (pc[c] = "WritingResponse" /\ Len(wire'[c]) <= Len(requests[c]))
          /\ pc[c] = "Closed"
             => /\ pc'[c] = "Closed" /\ ~open'[c]
                /\ requests'[c] = requests[c] /\ response'[c] = response[c]
                /\ wire'[c] = wire[c] /\ log'[c] = log[c]]_vars

\* C3 witness: a connection went twice round the loop and then closed.
C3_TwiceRoundThenClosed ==
    \E c \in Conns : pc[c] = "Closed" /\ Len(wire[c]) = 2 /\ ~WantsClose(requests[c][2])

\* C4: when handleConnection has returned the connection is closed, and it is not
\* closed before; after a failed write the connection is closed with the request
\* of that response as the last one parsed.
C4_ClosedOnExit ==
    \A c \in Conns :
        /\ pc[c] = "Closed" => ~open[c]
        /\ pc[c] \in {"ReadingRequest", "Dispatching", "WritingResponse"} => open[c]
        /\ WriteErrorLogged(c)
           => (pc[c] = "Closed" /\ ~open[c] /\ Len(requests[c]) = Len(wire[c]) + 1)

\* C4 witness: the write of the second response failed and the loop returned.
C4_WriteErrorExit ==
    \E c \in Conns : WriteErrorLogged(c) /\ Len(wire[c]) = 1 /\ pc[c] = "Closed"

\* C5: at most one request of a connection is in flight; a request is parsed only
\* when every earlier one has its response written; a request has at most one
\* response, and none only while it is in flight or when the write of its
\* response failed; the i-th response written answers the i-th request (it is 426
\* exactly when that request's version is not HTTP/1.1, and says Connection:
\* close exactly when that request asked for it).
C5_Sequential ==
    \A c \in Conns :
        /\ Len(wire[c]) <= Len(requests[c])
        /\ Len(requests[c]) <= Len(wire[c]) + 1
        /\ pc[c] \in {"NotAccepted", "ReadingRequest"} => Len(requests[c]) = Len(wire[c])
        /\ pc[c] \in {"Dispatching", "WritingResponse"} => Len(requests[c]) = Len(wire[c]) + 1
        /\ (pc[c] = "Closed" /\ Len(requests[c]) # Len(wire[c])) => WriteErrorLogged(c)
        /\ \A i \in 1..Len(wire[c]) :
              /\ wire[c][i].StatusLine = StatusUpgradeRequired
                 <=> requests[c][i].HTTPVersion # HTTP11
              /\ SaysClose(wire[c][i]) <=> WantsClose(requests[c][i])

\* C5 witness: the client sent its second request while the first was being
\* answered; the second waits in the buffer.
C5_SecondWaits ==
    \E c \in Conns :
        /\ pc[c] = "WritingResponse" /\ Len(requests[c]) = 1 /\ wire[c] = << >>
        /\ sent[c] = 2 /\ inbuf[c] # << >>

\* the response has a Content-Length header that is the length of its body
LengthHeaderIsBodyLength(resp) ==
    /\ "Content-Length" \in DOMAIN resp.Headers
    /\ Atoi(resp.Headers["Content-Length"]) = [ok |-> TRUE, val |-> Len(resp.Body)]

\* C6 as claimed: every response written has a Content-Length header equal to the
\* byte length of its body.
C6_AlwaysContentLength ==
    \A c \in Conns : \A i \in 1..Len(wire[c]) : LengthHeaderIsBodyLength(wire[c][i])

\* C6 amended: a response written with a non-empty body has a Content-Length
\* header equal to the byte length of the body written (the compressed body when
\* gzip was applied); a response with an empty body has no Content-Length header.
C6_ContentLengthOfBody ==
    \A c \in Conns : \A i \in 1..Len(wire[c]) :
        IF wire[c][i].Body # << >>
        THEN LengthHeaderIsBodyLength(wire[c][i])
        ELSE "Content-Length" \notin DOMAIN wire[c][i].Headers

\* C6 witness: a gzip-compressed response was written, its Content-Length the
\* length of the compressed body.
C6_CompressedLength ==
    \E c \in Conns : \E i \in 1..Len(wire[c]) :
        /\ MapGet(wire[c][i].Headers, "Content-Encoding") = <<"g","z","i","p">>
        /\ HasPrefix(wire[c][i].Body, GzipHeader)
        /\ LengthHeaderIsBodyLength(wire[c][i])

\* C7 as claimed: when the stream is at its end with no byte of a new request, the
\* loop returns as for a normal termination: the connection is closed, no
\* response is written and nothing is logged.
C7_CleanCloseSilent ==
    [][\A c \in Conns :
          (/\ pc[c] = "ReadingRequest" /\ armed[c]
           /\ eof[c] /\ inbuf[c] = << >>
           /\ pc'[c] = "Closed")
          => (log'[c] = log[c] /\ wire'[c] = wire[c] /\ ~open'[c])]_vars

\* the path is under /files/ and what follows the prefix leads out of the root
LeadsOutside(path) ==
    /\ HasPrefix(path, <<"/","f","i","l","e","s","/">>)
    /\ Head(Split(Clean(TrimPrefix(path, <<"/","f","i","l","e","s","/">>)), "/")) = DotDot

\* the target of an upload, under the root dir
UploadTarget(dir, path) == Join(dir, Clean(TrimPrefix(path, <<"/","f","i","l","e","s","/">>)))

\* a client-input error of the claim, with the filesystem as the request finds it
ClientInputError(req, files, dir) ==
    \/ req.Method \notin {GET, POST}
    \/ req.HTTPVersion # HTTP11
    \/ LeadsOutside(req.Path)
    \/ req.Method = POST /\ HasPrefix(req.Path, <<"/","f","i","l","e","s","/">>) /\ req.Body = << >>
    \/ /\ req.Method = POST /\ HasPrefix(req.Path, <<"/","f","i","l","e","s","/">>) /\ req.Body # << >>
       /\ dir # << >>
       /\ UploadTarget(dir, req.Path) \in DOMAIN files.files \cup files.dirs

NoCallFailed(calls) == \A i \in 1..Len(calls) : calls[i].res # "error"

\* C8: a request with a client-input error is answered 4xx (for an upload to an
\* existing path: when no filesystem call of the upload itself fails), and after a
\* 4xx response is written to a request that did not ask to close, the connection
\* is open and back at reading the next request.
C8_ClientErrorsRecovered ==
    [][\A c \in Conns :
          /\ (/\ pc[c] = "Dispatching" /\ pc'[c] = "WritingResponse"
              /\ ClientInputError(LastRequest(c), fs, directory)
              /\ NoCallFailed(ops'[c]))
             => Is4xx(response'[c].StatusLine)
          /\ (/\ pc[c] = "WritingResponse" /\ Is4xx(response[c].StatusLine)
              /\ ~WantsClose(LastRequest(c)) /\ WroteResponse(c))
             => (pc'[c] = "ReadingRequest" /\ open'[c])]_vars

\* C8 witness: a traversal path was answered 400, and on the same connection the
\* next request (an upload without a body) was parsed and answered 400 too.
C8_ErrorThenNext ==
    \E c \in Conns :
        /\ Len(wire[c]) = 2
        /\ LeadsOutside(requests[c][1].Path)
        /\ wire[c][1].StatusLine = StatusBadRequest
        /\ requests[c][2].Method = POST /\ requests[c][2].Body = << >>
        /\ wire[c][2].StatusLine = StatusBadRequest
        /\ open[c]

\* gzip failed in the last dispatch of the connection
GzipFailed(c) ==
    \E i \in 1..Len(ops[c]) :
        ops[c][i].op \in {"gzip.Write", "gzip.Close"} /\ ops[c][i].res = "error"

\* the request without its accept-encoding header
WithoutAcceptEncoding(req) ==
    [req EXCEPT !.Headers = [k \in DOMAIN req.Headers \ {<<"a","c","c","e","p","t","-","e","n","c","o","d","i","n","g">>} |->
                                 req.Headers[k]]]

\* C9 as claimed: when gzip compression fails the response is a 500.
C9_GzipFailureIs500 ==
    \A c \in Conns : GzipFailed(c) => response[c].StatusLine = StatusInternalServerError

\* C9 amended: when gzip compression of a response body fails, the failure is not
\* surfaced: the response is the one the same request gets without an
\* accept-encoding header (status 200, the uncompressed body, no
\* Content-Encoding), and the connection continues to the next request.
C9_GzipFailureFallsBack ==
    /\ [](\A c \in Conns :
            GzipFailed(c)
            => /\ response[c].StatusLine = StatusOK
               /\ "Content-Encoding" \notin DOMAIN response[c].Headers
               /\ response[c].Body # << >>
               /\ ~HasPrefix(response[c].Body, GzipHeader))
    /\ [][\A c \in Conns :
             /\ (pc[c] = "Dispatching" /\ pc'[c] = "WritingResponse" /\ GzipFailed(c)')
                => response'[c] =
                     addConnectionClose(
                         Handle(createMiddlewareChain,
                                [req |-> WithoutAcceptEncoding(LastRequest(c)), fs |-> fs,
                                 dir |-> directory, fault |-> "none"]).response,
                         LastRequest(c))
             /\ (/\ pc[c] = "WritingResponse" /\ GzipFailed(c)
                 /\ ~WantsClose(LastRequest(c)) /\ WroteResponse(c))
                => (pc'[c] = "ReadingRequest" /\ open'[c])]_vars

\* C9 witness: gzip failed for the first request, its response was written
\* uncompressed with status 200, and the loop reads the next request.
C9_FellBackAndContinued ==
    \E c \in Conns :
        /\ GzipFailed(c) /\ Len(wire[c]) = 1 /\ pc[c] = "ReadingRequest"
        /\ wire[c][1].StatusLine = StatusOK
        /\ "Content-Encoding" \notin DOMAIN wire[c][1].Headers

\* C10: a request whose version is not exactly HTTP/1.1 is answered 426 with
\* Upgrade: HTTP/1.1 and an empty, uncompressed body, whatever its method and
\* path; only the version check ran, no fallible call was made and the
\* filesystem is as it was.
C10_VersionCheckFirst ==
    /\ [](\A c \in Conns :
            /\ (pc[c] = "WritingResponse" /\ LastRequest(c).HTTPVersion # HTTP11)
               => /\ response[c].StatusLine = StatusUpgradeRequired
                  /\ MapGet(response[c].Headers, "Upgrade") = HTTP11
                  /\ response[c].Body = << >>
                  /\ "Content-Encoding" \notin DOMAIN response[c].Headers
                  /\ trace[c] = << "httpVersion" >>
                  /\ ops[c] = << >>
            /\ \A i \in 1..Len(wire[c]) :
                  requests[c][i].HTTPVersion # HTTP11
                  => /\ wire[c][i].StatusLine = StatusUpgradeRequired
                     /\ MapGet(wire[c][i].Headers, "Upgrade") = HTTP11)
    /\ [][\A c \in Conns :
             (pc[c] = "Dispatching" /\ LastRequest(c).HTTPVersion # HTTP11) => fs' = fs]_vars

\* C10 witness: a PUT of a /files/ path with body-less HTTP/1.0 and
\* Accept-Encoding: gzip is being answered 426.
C10_OldPutRefused ==
    \E c \in Conns :
        /\ pc[c] = "WritingResponse"
        /\ LastRequest(c).HTTPVersion # HTTP11
        /\ LastRequest(c).Method \notin {GET, POST}
        /\ HasPrefix(LastRequest(c).Path, <<"/","f","i","l","e","s","/">>)
        /\ response[c].StatusLine = StatusUpgradeRequired

(***************************************************************************)
(* The /files/ endpoint.  The specification SpecFiles is the server of     *)
(* Spec with clients that choose from requests on /files/ paths.           *)
(***************************************************************************)
ReqFilesRoot == <<"G","E","T"," ","/","f","i","l","e","s","/"," ","H","T","T","P","/","1",".","1","\r","\n","\r","\n">>
ReqUploadRoot == <<"P","O","S","T"," ","/","f","i","l","e","s","/"," ","H","T","T","P","/","1",".","1","\r","\n","C","o","n","t","e","n","t","-","L","e","n","g","t","h",":"," ","2","\r","\n","\r","\n","h","i">>
ReqUploadOutside == <<"P","O","S","T"," ","/","f","i","l","e","s","/","a","/",".",".","/",".",".","/","b"," ","H","T","T","P","/","1",".","1","\r","\n","C","o","n","t","e","n","t","-","L","e","n","g","t","h",":"," ","2","\r","\n","\r","\n","h","i">>
ReqUploadBelow == <<"P","O","S","T"," ","/","f","i","l","e","s","/","a","/","b"," ","H","T","T","P","/","1",".","1","\r","\n","C","o","n","t","e","n","t","-","L","e","n","g","t","h",":"," ","1","\r","\n","\r","\n","x">>
ReqDownloadBelow == <<"G","E","T"," ","/","f","i","l","e","s","/","a","/","b"," ","H","T","T","P","/","1",".","1","\r","\n","\r","\n">>

\* the chunks the clients of the specification SpecFiles choose from
FilesMenu ==
    { ReqUpload, ReqUploadClose, ReqUploadNoBody, ReqDownload, ReqTraversal, ReqPut,
      ReqOldPost, ReqFilesRoot, ReqUploadRoot, ReqUploadOutside, ReqUploadBelow,
      ReqDownloadBelow }

NextFiles == NextFor(Workers, FilesMenu)

SpecFiles == Init /\ [][NextFiles]_vars

FilesPrefix == <<"/","f","i","l","e","s","/">>

\* the request's path starts with /files/
IsFilesPath(req) == HasPrefix(req.Path, FilesPrefix)

\* what follows the /files/ prefix, normalized
Remainder(req) == Clean(TrimPrefix(req.Path, FilesPrefix))

\* the request reaches the router: its version and its method are accepted
Routed(req) == req.HTTPVersion = HTTP11 /\ req.Method \in {GET, POST}

\* connection c's handler runs in this step
Handled(c) == pc[c] = "Dispatching" /\ pc'[c] = "WritingResponse"

\* the calls of the last dispatch that name a path of the filesystem
FileOps(calls) ==
    { i \in 1..Len(calls) : calls[i].op \in {"MkdirAll", "Stat", "WriteFile", "Open", "ReadAll"} }

\* the path is the root or below it
InsideRoot(dir, path) == path = dir \/ HasPrefix(path, dir \o Slash)

\* the remainder names a path below the root: not empty, not the root itself,
\* no parent-directory marker
ValidFilesPath(req) ==
    /\ IsFilesPath(req)
    /\ Remainder(req) \notin {<< >>, Dot}
    /\ ~Contains(Remainder(req), DotDot)

\* something, a file or a directory, is at the path
Exists(files, path) == path \in DOMAIN files.files \cup files.dirs

\* C11: an HTTP/1.1 request whose method is neither GET nor POST is answered 405
\* with an empty body, with or without a root directory; only the version check
\* and the method check ran, no fallible call was made and the filesystem is as
\* it was; so it is for such a method on a /files/ path.
C11_OtherMethodRefused ==
    /\ [](\A c \in Conns :
            (/\ pc[c] = "WritingResponse"
             /\ LastRequest(c).HTTPVersion = HTTP11
             /\ LastRequest(c).Method \notin {GET, POST})
            => /\ response[c].StatusLine = StatusMethodNotAllowed
               /\ response[c].Body = << >>
               /\ trace[c] = << "httpVersion", "methodValidation" >>
               /\ ops[c] = << >>)
    /\ [][\A c \in Conns :
             (/\ Handled(c) /\ LastRequest(c).HTTPVersion = HTTP11
              /\ LastRequest(c).Method \notin {GET, POST})
             => fs' = fs]_vars

\* C11 witness: with a root directory and the file /d/a uploaded, a PUT of
\* /files/a was answered 405 and the file is as it was.
C11_PutOnExistingFile ==
    \E c \in Conns :
        /\ Len(wire[c]) = 2
        /\ directory = RootDirectory
        /\ wire[c][1].StatusLine = StatusCreated
        /\ requests[c][2].Method = <<"P","U","T">> /\ IsFilesPath(requests[c][2])
        /\ wire[c][2].StatusLine = StatusMethodNotAllowed
        /\ fs.files[<<"/","d","/","a">>] = requests[c][1].Body

\* C12 as claimed: every filesystem call of a routed /files/ request names a path
\* inside the configured root, and a remainder that leads outside the root is
\* answered 400 without any filesystem call.
C12_FilesStayInsideRoot ==
    [][\A c \in Conns :
          (Handled(c) /\ IsFilesPath(LastRequest(c)) /\ Routed(LastRequest(c)))
          => /\ \A i \in FileOps(ops'[c]) : InsideRoot(directory, ops'[c][i].path)
             /\ LeadsOutside(LastRequest(c).Path)
                => (response'[c].StatusLine = StatusBadRequest /\ ops'[c] = << >>)]_vars

\* C13 as claimed: a routed /files/ request whose remainder normalizes to the
\* empty path (filepath.Clean gives "." for it) is answered 400 without any
\* filesystem call.
C13_EmptyRemainderRefused ==
    [][\A c \in Conns :
          (/\ Handled(c) /\ IsFilesPath(LastRequest(c)) /\ Routed(LastRequest(c))
           /\ Remainder(LastRequest(c)) \in {<< >>, Dot})
          => (response'[c].StatusLine = StatusBadRequest /\ ops'[c] = << >>)]_vars

\* C14 as claimed: without a root directory every request on a /files/ path is
\* answered 400.
C14_NoRootAlways400 ==
    \A c \in Conns :
        (pc[c] = "WritingResponse" /\ directory = << >> /\ IsFilesPath(LastRequest(c)))
        => response[c].StatusLine = StatusBadRequest

\* C14 amended: without a root directory every HTTP/1.1 GET or POST request on a
\* /files/ path is answered 400 with an empty body (another method is answered
\* 405 and another version 426, as with a root directory), and no request on a
\* /files/ path makes a filesystem call or changes the filesystem.
C14_NoRootRefusesFiles ==
    /\ [](\A c \in Conns :
            (pc[c] = "WritingResponse" /\ directory = << >> /\ IsFilesPath(LastRequest(c)))
            => /\ ops[c] = << >>
               /\ response[c].Body = << >>
               /\ response[c].StatusLine =
                     IF LastRequest(c).HTTPVersion # HTTP11 THEN StatusUpgradeRequired
                     ELSE IF LastRequest(c).Method \notin {GET, POST}
                     THEN StatusMethodNotAllowed
                     ELSE StatusBadRequest)
    /\ [][\A c \in Conns :
             (Handled(c) /\ directory = << >> /\ IsFilesPath(LastRequest(c))) => fs' = fs]_vars

\* C14 witness: without a root directory an upload with a body and then a
\* download were both answered 400.
C14_NoRootUploadDownload ==
    \E c \in Conns :
        /\ directory = << >> /\ Len(wire[c]) = 2
        /\ requests[c][1].Method = POST /\ requests[c][1].Body # << >>
        /\ ValidFilesPath(requests[c][1])
        /\ requests[c][2].Method = GET /\ ValidFilesPath(requests[c][2])
        /\ wire[c][1].StatusLine = StatusBadRequest
        /\ wire[c][2].StatusLine = StatusBadRequest

\* the files are the same but for the one at the path
SameButAt(before, after, path) ==
    /\ DOMAIN after.files \ {path} = DOMAIN before.files \ {path}
    /\ \A p \in DOMAIN before.files \ {path} : after.files[p] = before.files[p]

\* the decision of an upload to target, from how its calls ended
UploadDecided(req, target, before, after, calls, resp) ==
    IF req.Body = << >>
    THEN resp.StatusLine = StatusBadRequest /\ calls = << >> /\ after = before
    ELSE /\ Len(calls) >= 1
         /\ calls[1].op = "MkdirAll" /\ calls[1].path = Dir(target)
         /\ IF calls[1].res = "error"
            THEN /\ resp.StatusLine = StatusInternalServerError
                 /\ Len(calls) = 1 /\ after = before
            ELSE /\ Len(calls) >= 2
                 /\ Dir(target) \in after.dirs
                 /\ calls[2].op = "Stat" /\ calls[2].path = target
                 /\ after.files = before.files \/ ~Exists(before, target)
                 /\ Exists(before, target) => calls[2].res # "notexist"
                 /\ IF calls[2].res \in {"file", "dir"}
                    THEN /\ resp.StatusLine = StatusConflict /\ Len(calls) = 2
                         /\ Exists(before, target)
                    ELSE IF calls[2].res = "error"
                    THEN resp.StatusLine = StatusInternalServerError /\ Len(calls) = 2
                    ELSE /\ Len(calls) = 3
                         /\ calls[3].op = "WriteFile" /\ calls[3].path = target
                         /\ IF calls[3].res = "error"
                            THEN /\ resp.StatusLine = StatusInternalServerError
                                 /\ after.files = before.files
                            ELSE /\ resp.StatusLine = StatusCreated
                                 /\ target \in DOMAIN after.files
                                 /\ after.files[target] = req.Body
                                 /\ SameButAt(before, after, target)

\* C15: an HTTP/1.1 POST to a valid /files/ path under a configured root is
\* decided in this order: no body, 400 with no filesystem call; os.MkdirAll of
\* the parent fails, 500; the target exists, 409; os.Stat fails otherwise, 500;
\* os.WriteFile fails, 500; else 201 with the target's content the request body
\* and the other files as they were.  Past os.MkdirAll the parent directory exists.  The response body is empty in every case,
\* and a file that existed is never changed.
C15_UploadOrder ==
    [][\A c \in Conns :
          (/\ Handled(c) /\ directory # << >>
           /\ LastRequest(c).HTTPVersion = HTTP11 /\ LastRequest(c).Method = POST
           /\ ValidFilesPath(LastRequest(c)))
          => /\ UploadDecided(LastRequest(c), UploadTarget(directory, LastRequest(c).Path),
                              fs, fs', ops'[c], response'[c])
             /\ response'[c].Body = << >>]_vars

\* C15 witness: an upload below a directory that did not exist was answered 201;
\* the directory was made and the file has the body.
C15_CreatedBelowNewDirectory ==
    \E c \in Conns :
        /\ Len(wire[c]) = 1
        /\ wire[c][1].StatusLine = StatusCreated /\ wire[c][1].Body = << >>
        /\ <<"/","d","/","a">> \in fs.dirs
        /\ <<"/","d","/","a","/","b">> \in DOMAIN fs.files
        /\ fs.files[<<"/","d","/","a","/","b">>] = <<"x">>
        /\ requests[c][1].Body = <<"x">>

\* request i of connection c is an upload to target that was answered 201
CreatedBy(c, i, target) ==
    /\ i <= Len(wire[c])
    /\ requests[c][i].Method = POST /\ IsFilesPath(requests[c][i])
    /\ UploadTarget(directory, requests[c][i].Path) = target
    /\ wire[c][i].StatusLine = StatusCreated

\* C16: after an upload to a path was answered 201, a later upload (a POST with a
\* body) to the same path is answered 409 when none of its filesystem calls
\* fails, is never answered 201, and leaves the file with the body of the first
\* upload.
C16_SecondUploadConflicts ==
    [][\A c \in Conns : \A i \in 1..Len(wire[c]) :
          (/\ Handled(c)
           /\ LastRequest(c).HTTPVersion = HTTP11 /\ LastRequest(c).Method = POST
           /\ LastRequest(c).Body # << >>
           /\ ValidFilesPath(LastRequest(c))
           /\ CreatedBy(c, i, UploadTarget(directory, LastRequest(c).Path)))
          => /\ NoCallFailed(ops'[c]) => response'[c].StatusLine = StatusConflict
             /\ response'[c].StatusLine # StatusCreated
             /\ fs'.files[UploadTarget(directory, LastRequest(c).Path)] = requests[c][i].Body]_vars

\* C16 witness: "hi" was uploaded to /files/a with 201, then "yo" to the same
\* path with 409, and the file holds "hi".
C16_CreatedThenConflict ==
    \E c \in Conns :
        /\ Len(wire[c]) = 2
        /\ wire[c][1].StatusLine = StatusCreated
        /\ wire[c][2].StatusLine = StatusConflict
        /\ requests[c][1].Path = requests[c][2].Path
        /\ requests[c][1].Body = <<"h","i">> /\ requests[c][2].Body = <<"y","o">>
        /\ fs.files[<<"/","d","/","a">>] = <<"h","i">>

\* the request does not negotiate gzip
NoGzip(req) == <<"a","c","c","e","p","t","-","e","n","c","o","d","i","n","g">> \notin DOMAIN req.Headers

OctetStream == <<"a","p","p","l","i","c","a","t","i","o","n","/","o","c","t","e","t","-","s","t","r","e","a","m">>

\* C19: after a POST to /files/<p> with a non-empty body was answered 201, a GET
\* of the same path without gzip negotiation, none of whose filesystem calls
\* fails, is answered 200 with exactly that body and Content-Type:
\* application/octet-stream.
C19_UploadDownloadRoundTrip ==
    [][\A c \in Conns : \A i \in 1..Len(wire[c]) :
          (/\ Handled(c)
           /\ LastRequest(c).HTTPVersion = HTTP11 /\ LastRequest(c).Method = GET
           /\ ValidFilesPath(LastRequest(c)) /\ NoGzip(LastRequest(c))
           /\ CreatedBy(c, i, UploadTarget(directory, LastRequest(c).Path))
           /\ requests[c][i].Body # << >>
           /\ NoCallFailed(ops'[c]))
          => /\ response'[c].StatusLine = StatusOK
             /\ response'[c].Body = requests[c][i].Body
             /\ MapGet(response'[c].Headers, "Content-Type") = OctetStream]_vars

\* C19 witness: "hi" was uploaded to /files/a and the download of /files/a was
\* written with the body "hi", its length 2 and the content type.
C19_DownloadedWhatWasUploaded ==
    \E c \in Conns :
        /\ Len(wire[c]) = 2
        /\ requests[c][1].Method = POST /\ requests[c][1].Body = <<"h","i">>
        /\ wire[c][1].StatusLine = StatusCreated
        /\ requests[c][2].Method = GET /\ requests[c][2].Path = requests[c][1].Path
        /\ wire[c][2].StatusLine = StatusOK
        /\ wire[c][2].Body = <<"h","i">>
        /\ MapGet(wire[c][2].Headers, "Content-Type") = OctetStream
        /\ MapGet(wire[c][2].Headers, "Content-Length") = <<"2">>

\* the last element of a path, the text after its last separator
LastElement(path) == Split(path, "/")[Len(Split(path, "/"))]

\* C20: an HTTP/1.1 GET of a valid /files/ path under a configured root is
\* answered 404 when nothing or a directory is at the resolved path; when a file
\* is there and no filesystem call fails it is answered 200 with the file's
\* content as body (the request not negotiating gzip), Content-Type:
\* application/octet-stream and Content-Disposition: attachment; filename=<the
\* last element of the path>; the filesystem is never changed.
C20_Download ==
    [][\A c \in Conns :
          (/\ Handled(c) /\ directory # << >>
           /\ LastRequest(c).HTTPVersion = HTTP11 /\ LastRequest(c).Method = GET
           /\ ValidFilesPath(LastRequest(c)))
          => /\ fs' = fs
             /\ UploadTarget(directory, LastRequest(c).Path) \notin DOMAIN fs.files
                => (response'[c].StatusLine = StatusNotFound /\ response'[c].Body = << >>)
             /\ (/\ UploadTarget(directory, LastRequest(c).Path) \in DOMAIN fs.files
                 /\ NoCallFailed(ops'[c]) /\ NoGzip(LastRequest(c)))
                => /\ response'[c].StatusLine = StatusOK
                   /\ response'[c].Body = fs.files[UploadTarget(directory, LastRequest(c).Path)]
                   /\ MapGet(response'[c].Headers, "Content-Type") = OctetStream
                   /\ MapGet(response'[c].Headers, "Content-Disposition")
                         = <<"a","t","t","a","c","h","m","e","n","t",";"," ","f","i","l","e","n","a","m","e","=">>
                              \o LastElement(UploadTarget(directory, LastRequest(c).Path))]_vars

\* C20 witness: /files/a/b was uploaded and its download was written with status
\* 200, the body and Content-Disposition: attachment; filename=b.
C20_DownloadedNested ==
    \E c \in Conns :
        /\ Len(wire[c]) = 2
        /\ requests[c][2].Method = GET /\ requests[c][2].Path = <<"/","f","i","l","e","s","/","a","/","b">>
        /\ wire[c][2].StatusLine = StatusOK
        /\ wire[c][2].Body = <<"x">>
        /\ MapGet(wire[c][2].Headers, "Content-Disposition") = <<"a","t","t","a","c","h","m","e","n","t",";"," ","f","i","l","e","n","a","m","e","=","b">>

\* a directory is at the path of a download, which was answered 404
C20_DirectoryNotFound ==
    \E c \in Conns :
        /\ Len(wire[c]) = 2
        /\ <<"/","d","/","a">> \in fs.dirs
        /\ requests[c][2].Method = GET /\ requests[c][2].Path = <<"/","f","i","l","e","s","/","a">>
        /\ wire[c][2].StatusLine = StatusNotFound

(***************************************************************************)
(* Concurrent connections.  Server.Start runs handleConnection of every    *)
(* connection in its own goroutine; the goroutines share the filesystem,   *)
(* and each call of os.MkdirAll, os.Stat and os.WriteFile of an upload is  *)
(* a step of its own.  While its upload runs a connection is at            *)
(* "Dispatching" (before os.MkdirAll), "UploadStat" or "UploadWrite".      *)
(***************************************************************************)
\* the connections of the specification SpecConc
ConcWorkers == {1, 2}

\* the chunks the clients of the specification SpecConc choose from
ConcMenu == { ReqUpload, ReqUploadClose, ReqUploadNoBody }

\* the number of requests a client of SpecConc sends
MaxConcSends == 1

\* a client of SpecConc writes one request to its connection; it leaves the
\* connection open
ConcClientSend(c, chunk) ==
    /\ sent[c] < MaxConcSends
    /\ ClientSend(c, chunk)

\* what a handler is called with
HandlerInput(c, fault) ==
    [req |-> CurrentRequest(c), fs |-> fs, dir |-> directory, fault |-> fault]

\* fullPath of handleFiles
uploadFullPath(x) == Join(x.dir, Clean(TrimPrefix(x.req.Path, <<"/","f","i","l","e","s","/">>)))

\* the request gets to os.MkdirAll of handleFileUpload
startsUpload(r) == r.ops # << >> /\ r.ops[1].op = "MkdirAll"

ReachesUpload(c) == startsUpload(Handle(createMiddlewareChain, HandlerInput(c, "none")))

\* handleFileUpload returned r: the way back through handleFiles, the router and
\* the middlewares
uploadReturns(r, x) ==
    Ran("httpVersion",
        Ran("methodValidation",
            compressResponse(Ran("routing", Ran("handleFiles", r)), x)))

\* a request that makes at most one call on the filesystem state: the handler in
\* one step
DispatchOther(c) ==
    /\ pc[c] = "Dispatching"
    /\ ~ReachesUpload(c)
    /\ Dispatch(c)

\* os.MkdirAll returned mk
uploadMkdirDone(c, x, mk) ==
    IF mk.err
    THEN /\ Dispatched(c, uploadReturns(uploadDirMade(x, uploadFullPath(x), mk), x))
         /\ pc' = [pc EXCEPT ![c] = "WritingResponse"]
    ELSE /\ fs' = mk.fs
         /\ ops' = [ops EXCEPT ![c] = << Op("MkdirAll", Dir(uploadFullPath(x)), "ok") >>]
         /\ pc' = [pc EXCEPT ![c] = "UploadStat"]
         /\ UNCHANGED << response, trace >>

\* handleFileUpload up to the return of os.MkdirAll
UploadMkdirAll(c) ==
    /\ pc[c] = "Dispatching"
    /\ ReachesUpload(c)
    /\ \E fault \in Faults :
          uploadMkdirDone(c, HandlerInput(c, fault),
                          MkdirAll(fs, Dir(uploadFullPath(HandlerInput(c, fault))), fault))
    /\ UNCHANGED << directory, open, armed, inbuf, eof, sent, requests, wire, log >>

\* os.Stat returned st
uploadStatDone(c, x, st) ==
    IF st # "notexist"
    THEN /\ Dispatched(c, uploadReturns(
                              uploadStatted(x, uploadFullPath(x), [err |-> FALSE, fs |-> fs],
                                            st, Append(ops[c], Op("Stat", uploadFullPath(x), st))),
                              x))
         /\ pc' = [pc EXCEPT ![c] = "WritingResponse"]
    ELSE /\ ops' = [ops EXCEPT ![c] = Append(@, Op("Stat", uploadFullPath(x), st))]
         /\ pc' = [pc EXCEPT ![c] = "UploadWrite"]
         /\ UNCHANGED << fs, response, trace >>

\* handleFileUpload from os.Stat to its return
UploadStat(c) ==
    /\ pc[c] = "UploadStat"
    /\ \E fault \in Faults :
          uploadStatDone(c, HandlerInput(c, fault),
                         Stat(fs, uploadFullPath(HandlerInput(c, fault)), fault))
    /\ UNCHANGED << directory, open, armed, inbuf, eof, sent, requests, wire, log >>

\* os.WriteFile returned wr
uploadWriteDone(c, x, wr) ==
    /\ Dispatched(c, uploadReturns(uploadWritten(wr, uploadFullPath(x), ops[c]), x))
    /\ pc' = [pc EXCEPT ![c] = "WritingResponse"]

\* handleFileUpload from os.WriteFile to the end
UploadWrite(c) ==
    /\ pc[c] = "UploadWrite"
    /\ \E fault \in Faults :
          uploadWriteDone(c, HandlerInput(c, fault),
                          WriteFile(fs, uploadFullPath(HandlerInput(c, fault)),
                                    CurrentRequest(c).Body, fault))
    /\ UNCHANGED << directory, open, armed, inbuf, eof, sent, requests, wire, log >>

InitConc == InitFor(ConcWorkers)

NextConc ==
    \E c \in ConcWorkers :
        \/ \E chunk \in ConcMenu : ConcClientSend(c, chunk)
        \/ Accept(c)
        \/ SetReadDeadline(c)
        \/ ParseRequest(c)
        \/ ReadTimeout(c)
        \/ DispatchOther(c)
        \/ UploadMkdirAll(c)
        \/ UploadStat(c)
        \/ UploadWrite(c)
        \/ WriteResponse(c)

SpecConc == InitConc /\ [][NextConc]_vars

\* the steps of an upload taken one after the other give what the handler gives
\* in one step
UploadStepsAgree ==
    [][\A c \in Conns :
          (Handled(c) /\ ReachesUpload(c))
          => \E fault \in Faults :
                /\ response'[c] =
                      addConnectionClose(
                          uploadReturns(handleFileUpload(HandlerInput(c, fault),
                                                         uploadFullPath(HandlerInput(c, fault))),
                                        HandlerInput(c, fault)).response,
                          LastRequest(c))
                /\ trace'[c] =
                      uploadReturns(handleFileUpload(HandlerInput(c, fault),
                                                     uploadFullPath(HandlerInput(c, fault))),
                                    HandlerInput(c, fault)).trace
                /\ ops'[c] =
                      uploadReturns(handleFileUpload(HandlerInput(c, fault),
                                                     uploadFullPath(HandlerInput(c, fault))),
                                    HandlerInput(c, fault)).ops]_vars

\* the target of the upload connection c is in
TargetOf(c) == UploadTarget(directory, LastRequest(c).Path)

\* C17 as claimed: under any interleaving of the uploads of concurrent
\* connections, a file that exists stays and keeps its content.
C17_NeverOverwritten ==
    [][\A p \in DOMAIN fs.files :
          p \in DOMAIN fs'.files /\ fs'.files[p] = fs.files[p]]_vars

\* C18: the existence check is no reservation: for a connection that passed the
\* check and is about to write, os.WriteFile succeeds (unless the write itself
\* fails) although a file is at the target by now, and a write that succeeded is
\* answered 201 with the target holding the body of this upload.
C18_CheckIsNoReservation ==
    /\ [](\A c \in Conns :
            (pc[c] = "UploadWrite" /\ TargetOf(c) \in DOMAIN fs.files)
            => ~WriteFile(fs, TargetOf(c), LastRequest(c).Body, "none").err)
    /\ [][\A c \in Conns :
             (/\ pc[c] = "UploadWrite" /\ pc'[c] = "WritingResponse"
              /\ NoCallFailed(ops'[c]))
             => /\ response'[c].StatusLine = StatusCreated
                /\ fs'.files[TargetOf(c)] = LastRequest(c).Body]_vars

\* C18 witness: two connections uploaded to the same path, which did not exist;
\* the check of each found nothing and both were answered 201.
C18_BothCreated ==
    /\ Len(wire[1]) = 1 /\ Len(wire[2]) = 1
    /\ requests[1][1].Path = requests[2][1].Path
    /\ requests[1][1].Body # requests[2][1].Body
    /\ wire[1][1].StatusLine = StatusCreated
    /\ wire[2][1].StatusLine = StatusCreated
    /\ \A c \in {1, 2} : Len(ops[c]) = 3 /\ ops[c][2] = Op("Stat", <<"/","d","/","a">>, "notexist")


(***************************************************************************)
(* Routing and compression.  The specification SpecRoutes is the server of *)
(* Spec with clients that choose from requests on every route, with and    *)
(* without gzip negotiation.                                               *)
(***************************************************************************)
ReqRootGzip == <<"G","E","T"," ","/"," ","H","T","T","P","/","1",".","1","\r","\n","A","c","c","e","p","t","-","E","n","c","o","d","i","n","g",":"," ","g","z","i","p","\r","\n","\r","\n">>
ReqUserAgent == <<"G","E","T"," ","/","u","s","e","r","-","a","g","e","n","t"," ","H","T","T","P","/","1",".","1","\r","\n","U","s","e","r","-","A","g","e","n","t",":"," ","f","o","o","b","a","r","/","1","\r","\n","\r","\n">>
ReqUserAgentNone == <<"G","E","T"," ","/","u","s","e","r","-","a","g","e","n","t"," ","H","T","T","P","/","1",".","1","\r","\n","\r","\n">>
ReqUserAgentGzip == <<"G","E","T"," ","/","u","s","e","r","-","a","g","e","n","t"," ","H","T","T","P","/","1",".","1","\r","\n","U","s","e","r","-","A","g","e","n","t",":"," ","c","u","r","l","\r","\n","A","c","c","e","p","t","-","E","n","c","o","d","i","n","g",":"," ","d","e","f","l","a","t","e"," ",","," ","G","Z","i","p"," ",",","b","r","\r","\n","\r","\n">>
ReqEchoNotGzip == <<"G","E","T"," ","/","e","c","h","o","/","a","b"," ","H","T","T","P","/","1",".","1","\r","\n","A","c","c","e","p","t","-","E","n","c","o","d","i","n","g",":"," ","g","z","i","p","x",","," ","x","-","g","z","i","p",","," ","g","z","i","p",";","q","=","1","\r","\n","\r","\n">>
ReqEchoEmpty == <<"G","E","T"," ","/","e","c","h","o","/"," ","H","T","T","P","/","1",".","1","\r","\n","A","c","c","e","p","t","-","E","n","c","o","d","i","n","g",":"," ","g","z","i","p","\r","\n","\r","\n">>
ReqEchoNested == <<"G","E","T"," ","/","e","c","h","o","/","/","e","c","h","o","/","a","%","2","0","b"," ","H","T","T","P","/","1",".","1","\r","\n","\r","\n">>
ReqEchoPath == <<"G","E","T"," ","/","e","c","h","o"," ","H","T","T","P","/","1",".","1","\r","\n","\r","\n">>
ReqPostRoot == <<"P","O","S","T"," ","/"," ","H","T","T","P","/","1",".","1","\r","\n","\r","\n">>
ReqPostUserAgent == <<"P","O","S","T"," ","/","u","s","e","r","-","a","g","e","n","t"," ","H","T","T","P","/","1",".","1","\r","\n","U","s","e","r","-","A","g","e","n","t",":"," ","c","u","r","l","\r","\n","\r","\n">>
ReqPostEcho == <<"P","O","S","T"," ","/","e","c","h","o","/","x"," ","H","T","T","P","/","1",".","1","\r","\n","A","c","c","e","p","t","-","E","n","c","o","d","i","n","g",":"," ","g","z","i","p","\r","\n","\r","\n">>
ReqDownloadGzip == <<"G","E","T"," ","/","f","i","l","e","s","/","a"," ","H","T","T","P","/","1",".","1","\r","\n","A","c","c","e","p","t","-","E","n","c","o","d","i","n","g",":"," ","g","z","i","p","\r","\n","\r","\n">>

\* the chunks the clients of the specification SpecRoutes choose from
RoutesMenu ==
    { ReqRootGzip, ReqUserAgent, ReqUserAgentNone, ReqUserAgentGzip, ReqEchoGzip,
      ReqEchoNotGzip, ReqEchoEmpty, ReqEchoNested, ReqEchoPath, ReqPostRoot,
      ReqPostUserAgent, ReqPostEcho, ReqUpload, ReqDownloadGzip }

NextRoutes == NextFor(Workers, RoutesMenu)

SpecRoutes == Init /\ [][NextRoutes]_vars

\* the elements of a sequence
Elements(s) == { s[i] : i \in 1..Len(s) }

GzipToken == <<"g","z","i","p">>

\* the request has an accept-encoding header one of whose comma-separated
\* tokens is gzip, surrounding space and case aside
NegotiatesGzip(req) ==
    /\ <<"a","c","c","e","p","t","-","e","n","c","o","d","i","n","g">> \in DOMAIN req.Headers
    /\ \E token \in Elements(Split(req.Headers[<<"a","c","c","e","p","t","-","e","n","c","o","d","i","n","g">>], ",")) :
           ToLower(TrimSpace(token)) = GzipToken

\* the members of a gzip stream with one stored block: header, block header,
\* data, checksum and size
GzipData(z) == SubSeq(z, 16, Len(z) - 8)

\* the stream is well formed: the magic number and the deflate method, a final
\* stored block whose length and the trailer's size are the length of the data
GzipWellFormed(z) ==
    /\ Len(z) >= 23
    /\ SubSeq(z, 1, 3) = << "1f", "8b", "08" >>
    /\ z[11] = "01"
    /\ SubSeq(z, 12, 13) = << HexByte(Len(GzipData(z)) % 256),
                              HexByte((Len(GzipData(z)) \div 256) % 256) >>
    /\ SubSeq(z, Len(z) - 3, Len(z) - 2) = SubSeq(z, 12, 13)

\* decompression: the data of a well-formed stream
Gunzip(z) == [ok |-> GzipWellFormed(z), data |-> IF GzipWellFormed(z) THEN GzipData(z) ELSE << >>]

SaysGzip(resp) ==
    "Content-Encoding" \in DOMAIN resp.Headers /\ resp.Headers["Content-Encoding"] = GzipToken

\* the body the client has after undoing the content encoding
PlainBody(resp) == IF SaysGzip(resp) THEN Gunzip(resp.Body).data ELSE resp.Body

\* the router and the handlers below it, without the stages around them
Router == [mw |-> "routing", next |-> [mw |-> "notFound"]]

\* what the router returns for connection c's request when the environment
\* fault is f
RoutedBy(c, f) ==
    Handle(Router, [req |-> LastRequest(c), fs |-> fs, dir |-> directory, fault |-> f])

\* the calls of the handlers, those of the compression aside
HandlerOps(calls) ==
    SelectSeq(calls, LAMBDA o : o.op \notin {"gzip.Write", "gzip.Close"})

\* r is what the router returned in this step of connection c
IsRouted(c, r) ==
    /\ trace'[c] = << "httpVersion", "methodValidation" >> \o r.trace \o << "compression" >>
    /\ HandlerOps(ops'[c]) = r.ops
    /\ fs' = r.fs

\* the headers of a response, one of them aside
HeadersBut(resp, name) == [k \in DOMAIN resp.Headers \ {name} |-> resp.Headers[k]]

\* the response is the routed response with its body compressed
IsCompressed(resp, routed) ==
    /\ resp.StatusLine = routed.StatusLine
    /\ resp.Body # routed.Body
    /\ Gunzip(resp.Body).ok
    /\ Gunzip(resp.Body).data = routed.Body
    /\ SaysGzip(resp)
    /\ MapGet(resp.Headers, "Content-Length") = Itoa(Len(resp.Body))
    /\ \A k \in DOMAIN routed.Headers \ {"Content-Length"} :
           MapGet(resp.Headers, k) = routed.Headers[k]

\* the response is the routed response, but for a Connection header
IsUnchanged(resp, routed) ==
    /\ resp.StatusLine = routed.StatusLine
    /\ resp.Body = routed.Body
    /\ "Content-Encoding" \notin DOMAIN resp.Headers
    /\ HeadersBut(resp, "Connection") = HeadersBut(routed, "Connection")

\* C21: for a request that reaches the router, the response is the routed
\* response with its body gzip-compressed, Content-Encoding: gzip and
\* Content-Length the compressed length, exactly when the request has an
\* accept-encoding header with a token equal to gzip after trimming and lower-casing
\* and the routed body is not empty (gzip itself not failing); otherwise the body
\* is the routed body and there is no Content-Encoding header.
C21_CompressedExactlyWhenNegotiated ==
    [][\A c \in Conns :
          (Handled(c) /\ Routed(LastRequest(c)) /\ ~GzipFailed(c)')
          => \E f \in Faults :
                 /\ IsRouted(c, RoutedBy(c, f))
                 /\ IF NegotiatesGzip(LastRequest(c)) /\ RoutedBy(c, f).response.Body # << >>
                    THEN IsCompressed(response'[c], RoutedBy(c, f).response)
                    ELSE IsUnchanged(response'[c], RoutedBy(c, f).response)]_vars

\* C21 witness: a user-agent request whose accept-encoding lists gzip in capitals
\* between other tokens was answered compressed, and an echo request whose tokens
\* only contain gzip was answered as it is.
C21_TokenCompressedOthersNot ==
    \E c \in Conns :
        /\ Len(wire[c]) = 2
        /\ \E i, j \in 1..2 :
              /\ MapGet(requests[c][i].Headers, <<"a","c","c","e","p","t","-","e","n","c","o","d","i","n","g">>) = <<"d","e","f","l","a","t","e"," ",","," ","G","Z","i","p"," ",",","b","r">>
              /\ SaysGzip(wire[c][i])
              /\ Gunzip(wire[c][i].Body).data = <<"c","u","r","l">>
              /\ MapGet(wire[c][i].Headers, "Content-Length") = Itoa(Len(<<"c","u","r","l">>) + 23)
              /\ MapGet(requests[c][j].Headers, <<"a","c","c","e","p","t","-","e","n","c","o","d","i","n","g">>) = <<"g","z","i","p","x",","," ","x","-","g","z","i","p",","," ","g","z","i","p",";","q","=","1">>
              /\ wire[c][j].Body = <<"a","b">>
              /\ "Content-Encoding" \notin DOMAIN wire[c][j].Headers

\* the response to connection c's request had it come without accept-encoding,
\* in an environment where no call fails
PlainResponse(c) ==
    Handle(createMiddlewareChain,
           [req |-> WithoutAcceptEncoding(LastRequest(c)), fs |-> fs, dir |-> directory,
            fault |-> "none"]).response

\* C22: when a request negotiating gzip is handled without a failing call and the
\* same request without the accept-encoding header is answered with a non-empty
\* body, the response has Content-Encoding: gzip, its body is not that body but
\* decompresses to it, and its status line is the same.
C22_GzipRoundTrip ==
    [][\A c \in Conns :
          (/\ Handled(c)
           /\ NegotiatesGzip(LastRequest(c))
           /\ NoCallFailed(ops'[c])
           /\ PlainResponse(c).Body # << >>)
          => /\ SaysGzip(response'[c])
             /\ response'[c].Body # PlainResponse(c).Body
             /\ Gunzip(response'[c].Body).ok
             /\ Gunzip(response'[c].Body).data = PlainResponse(c).Body
             /\ response'[c].StatusLine = PlainResponse(c).StatusLine]_vars

\* C22 witness: the file uploaded with body "hi" was downloaded with gzip
\* negotiated, and the written body is a gzip stream of "hi".
C22_DownloadCompressed ==
    \E c \in Conns :
        /\ Len(wire[c]) = 2
        /\ requests[c][2].Path = <<"/","f","i","l","e","s","/","a">>
        /\ NegotiatesGzip(requests[c][2])
        /\ wire[c][2].StatusLine = StatusOK
        /\ SaysGzip(wire[c][2])
        /\ wire[c][2].Body # <<"h","i">>
        /\ Gunzip(wire[c][2].Body) = [ok |-> TRUE, data |-> <<"h","i">>]

EchoPrefix == <<"/","e","c","h","o","/">>

\* the route of a request by the first rule that matches
RouteOf(req) ==
    CASE req.Method = GET /\ req.Path = <<"/">> -> "handleRoot"
      [] req.Method = GET /\ req.Path = <<"/","u","s","e","r","-","a","g","e","n","t">> -> "handleUserAgent"
      [] req.Method = GET /\ Len(req.Path) >= 6 /\ SubSeq(req.Path, 1, 6) = EchoPrefix
           -> "handleEcho"
      [] OTHER -> IF Len(req.Path) >= 7 /\ SubSeq(req.Path, 1, 7) = FilesPrefix
                  THEN "handleFiles" ELSE "notFound"

\* C24: an HTTP/1.1 GET or POST request is handled by the first match of: GET /
\* (200, empty body), GET /user-agent (200, body the user-agent header's value,
\* empty without the header), GET with prefix /echo/ (the echo handler), any
\* method with prefix /files/ (the file handler), else 404 with an empty body.
C24_FirstMatchingRoute ==
    [][\A c \in Conns :
          (Handled(c) /\ Routed(LastRequest(c)))
          => /\ trace'[c][3] = "routing"
             /\ trace'[c][4] = RouteOf(LastRequest(c))
             /\ RouteOf(LastRequest(c)) = "handleRoot"
                => response'[c].StatusLine = StatusOK /\ response'[c].Body = << >>
             /\ RouteOf(LastRequest(c)) = "handleUserAgent"
                => /\ response'[c].StatusLine = StatusOK
                   /\ \/ GzipFailed(c)'
                      \/ PlainBody(response'[c])
                           = IF <<"u","s","e","r","-","a","g","e","n","t">> \in DOMAIN LastRequest(c).Headers
                             THEN LastRequest(c).Headers[<<"u","s","e","r","-","a","g","e","n","t">>] ELSE << >>
             /\ RouteOf(LastRequest(c)) = "notFound"
                => response'[c].StatusLine = StatusNotFound /\ response'[c].Body = << >>]_vars

\* C24 witness: on one connection POST /echo/x was answered 404 and GET
\* /user-agent with User-Agent: foobar/1 was answered 200 with that value.
C24_PostEchoNotFound ==
    \E c \in Conns :
        /\ Len(wire[c]) = 2
        /\ \E i, j \in 1..2 :
              /\ requests[c][i].Method = POST
              /\ requests[c][i].Path = <<"/","e","c","h","o","/","x">>
              /\ wire[c][i].StatusLine = StatusNotFound
              /\ wire[c][i].Body = << >>
              /\ requests[c][j].Method = GET
              /\ requests[c][j].Path = <<"/","u","s","e","r","-","a","g","e","n","t">>
              /\ wire[c][j].StatusLine = StatusOK
              /\ wire[c][j].Body = <<"f","o","o","b","a","r","/","1">>

\* C24 witness: POST / and POST /user-agent were both answered 404.
C24_PostRootNotFound ==
    \E c \in Conns :
        /\ Len(wire[c]) = 2
        /\ { requests[c][1].Path, requests[c][2].Path } = { <<"/">>, <<"/","u","s","e","r","-","a","g","e","n","t">> }
        /\ \A i \in 1..2 :
              requests[c][i].Method = POST /\ wire[c][i].StatusLine = StatusNotFound

\* C25: an HTTP/1.1 GET whose path starts with /echo/ is answered 200 with the
\* rest of the path as it was sent, empty or with separators or the prefix again
\* in it; the body on the wire is that text, or its gzip stream when the request
\* negotiates gzip.
C25_EchoIsTheRemainder ==
    [][\A c \in Conns :
          (/\ Handled(c)
           /\ Routed(LastRequest(c))
           /\ LastRequest(c).Method = GET
           /\ Len(LastRequest(c).Path) >= 6
           /\ SubSeq(LastRequest(c).Path, 1, 6) = EchoPrefix)
          => /\ response'[c].StatusLine = StatusOK
             /\ PlainBody(response'[c]) = SubSeq(LastRequest(c).Path, 7, Len(LastRequest(c).Path))
             /\ NoGzip(LastRequest(c))
                => response'[c].Body = SubSeq(LastRequest(c).Path, 7, Len(LastRequest(c).Path))
             /\ fs' = fs]_vars

\* C25 witness: GET /echo//echo/a%20b was answered with /echo/a%20b and GET
\* /echo/ with an empty body.
C25_EchoNestedAndEmpty ==
    \E c \in Conns :
        /\ Len(wire[c]) = 2
        /\ \E i, j \in 1..2 :
              /\ requests[c][i].Path = <<"/","e","c","h","o","/","/","e","c","h","o","/","a","%","2","0","b">>
              /\ wire[c][i].StatusLine = StatusOK
              /\ wire[c][i].Body = <<"/","e","c","h","o","/","a","%","2","0","b">>
              /\ requests[c][j].Path = <<"/","e","c","h","o","/">>
              /\ wire[c][j].StatusLine = StatusOK
              /\ wire[c][j].Body = << >>

\* the stages of the chain in the order they are declared
DeclaredStages == << "httpVersion", "methodValidation", "compression", "routing" >>

\* the names the handlers below the router leave in the trace
HandlerNames ==
    { "handleRoot", "handleUserAgent", "handleEcho", "handleFiles", "handleFileUpload",
      "handleFileDownload", "notFound" }

\* where the stage's work is in the trace, 0 when it did not run
RECURSIVE IndexOf(_, _, _)
IndexOf(s, e, i) ==
    IF i > Len(s) THEN 0 ELSE IF s[i] = e THEN i ELSE IndexOf(s, e, i + 1)

\* C23: the version check runs first and alone when it refuses; the method check
\* runs second and, when it refuses, nothing runs after it; otherwise the router
\* and the handler it selects run third and the compression runs last, once, on
\* what the router returned; what is written is the response the chain returned,
\* which no stage touches after it is serialized.
C23_StagesInOrder ==
    /\ [](\A c \in Conns :
            pc[c] = "WritingResponse"
            => IF LastRequest(c).HTTPVersion # HTTP11
               THEN trace[c] = << "httpVersion" >> /\ ops[c] = << >>
               ELSE IF LastRequest(c).Method \notin {GET, POST}
               THEN trace[c] = << "httpVersion", "methodValidation" >> /\ ops[c] = << >>
               ELSE /\ Len(trace[c]) >= 5
                    /\ SubSeq(trace[c], 1, 3) = << "httpVersion", "methodValidation", "routing" >>
                    /\ \A i \in 4..(Len(trace[c]) - 1) : trace[c][i] \in HandlerNames
                    /\ IndexOf(trace[c], "compression", 1) = Len(trace[c]))
    /\ [][\A c \in Conns :
            /\ (Handled(c) /\ Routed(LastRequest(c)))
               => \E f \in Faults :
                      /\ IsRouted(c, RoutedBy(c, f))
                      /\ PlainBody(response'[c]) = RoutedBy(c, f).response.Body
                      /\ response'[c].StatusLine = RoutedBy(c, f).response.StatusLine
            /\ WroteResponse(c)
               => /\ wire'[c][Len(wire'[c])].Body = response[c].Body
                  /\ SaysGzip(wire'[c][Len(wire'[c])]) = SaysGzip(response[c])
                  /\ response'[c] = response[c]
                  /\ trace'[c] = trace[c]
                  /\ ops'[c] = ops[c]]_vars

\* C23 witness: an echo request was answered compressed after the four stages ran
\* in order, and on another occasion a request of an old version was refused by
\* the first stage alone.
C23_AllStagesRan ==
    \E c \in Conns :
        /\ Len(wire[c]) = 2
        /\ requests[c][1].HTTPVersion = HTTP11
        /\ SaysGzip(wire[c][1])
        /\ Gunzip(wire[c][1].Body).data = <<"a","b">>
        /\ requests[c][2].HTTPVersion # HTTP11
        /\ wire[c][2].StatusLine = StatusUpgradeRequired
        /\ trace[c] = << "httpVersion" >>

(***************************************************************************)
(* The request parser.  The specification SpecParse is the server of Spec  *)
(* with clients that choose from well-formed and malformed request lines,  *)
(* header lines and bodies.                                                *)
(***************************************************************************)
ReqDoubleSpace == <<"G","E","T"," "," ","/"," ","H","T","T","P","/","1",".","1","\r","\n","\r","\n">>
ReqBlankFirst == <<"\r","\n">>
ReqNoPath == <<"G","E","T"," "," ","H","T","T","P","/","1",".","1","\r","\n","\r","\n">>
ReqPadded == <<" ","G","E","T"," ","/"," ","H","T","T","P","/","1",".","1"," ","\r","\n","\r","\n">>
ReqLfOnly == <<"G","E","T"," ","/","e","c","h","o","/","a"," ","H","T","T","P","/","1",".","1","\n","H","o","s","t",":"," ","x","\n","\n">>
ReqUploadShort == <<"P","O","S","T"," ","/","f","i","l","e","s","/","a"," ","H","T","T","P","/","1",".","1","\r","\n","C","o","n","t","e","n","t","-","L","e","n","g","t","h",":"," ","5","\r","\n","\r","\n","h","i">>
ReqBodyPlus == <<"P","O","S","T"," ","/","f","i","l","e","s","/","b"," ","H","T","T","P","/","1",".","1","\r","\n","C","o","n","t","e","n","t","-","L","e","n","g","t","h",":"," ","+","1","\r","\n","\r","\n","x">>
ReqBodyText == <<"P","O","S","T"," ","/","f","i","l","e","s","/","a"," ","H","T","T","P","/","1",".","1","\r","\n","C","o","n","t","e","n","t","-","L","e","n","g","t","h",":"," ","2","x","\r","\n","\r","\n">>
ReqDupLength == <<"P","O","S","T"," ","/","f","i","l","e","s","/","a"," ","H","T","T","P","/","1",".","1","\r","\n","C","o","n","t","e","n","t","-","L","e","n","g","t","h",":"," ","9","\r","\n","c","o","n","t","e","n","t","-","l","e","n","g","t","h"," ",":"," ","2","\r","\n","\r","\n","h","i">>
ReqHeaders == <<"G","E","T"," ","/","u","s","e","r","-","a","g","e","n","t"," ","H","T","T","P","/","1",".","1","\r","\n"," ","U","s","e","r","-","A","g","e","n","t"," ",":"," ","a",":","b"," ","\r","\n","b","o","g","u","s"," ","l","i","n","e","\r","\n","U","S","E","R","-","A","G","E","N","T",":","c","\r","\n","X","-","E","m","p","t","y",":","\r","\n","\r","\n">>

\* the chunks the clients of the specification SpecParse choose from
ParseMenu ==
    { ReqRoot, ReqBadLine, ReqDoubleSpace, ReqBlankFirst, ReqNoPath, ReqPadded, ReqLfOnly,
      ReqUpload, ReqUploadShort, ReqBodyPlus, ReqBodyText, ReqDupLength, ReqHeaders,
      ReqPartial }

NextParse == NextFor(Workers, ParseMenu)

SpecParse == Init /\ [][NextParse]_vars

\* the input cut at every line feed: the lines without their line feed, and
\* after the last of them what follows the last line feed
InputLines(buf) == Split(buf, "\n")

\* the line is the one that ends the head: nothing but its line end
IsBlank(line) == line \in { << >>, << "\r" >> }

\* the complete lines that are blank
BlankLines(lines) == { i \in 1..(Len(lines) - 1) : IsBlank(lines[i]) }

\* the first blank line, 0 when there is none
FirstBlank(lines) ==
    IF BlankLines(lines) = {} THEN 0
    ELSE CHOOSE i \in BlankLines(lines) : \A j \in BlankLines(lines) : i <= j

\* the head of a request has arrived whole
HeadComplete(buf) == FirstBlank(InputLines(buf)) > 0

\* the request line of a complete head, empty when the head is one blank line
RequestLineIn(lines) == IF FirstBlank(lines) = 1 THEN << >> ELSE lines[1]

\* the lines between the request line and the blank line
HeaderLinesIn(lines) == SubSeq(lines, 2, FirstBlank(lines) - 1)

\* the number of bytes of the first k lines with their line feeds
RECURSIVE BytesOfLines(_, _)
BytesOfLines(lines, k) ==
    IF k = 0 THEN 0 ELSE Len(lines[k]) + 1 + BytesOfLines(lines, k - 1)

\* the number of bytes of the head, the blank line included
HeadLength(buf) == BytesOfLines(InputLines(buf), FirstBlank(InputLines(buf)))

\* the positions of the spaces of a text
Spaces(text) == { i \in 1..Len(text) : text[i] = " " }

\* the text is three tokens with one space between them
ThreeTokens(text) == Cardinality(Spaces(text)) = 2

FirstSpace(text) == CHOOSE i \in Spaces(text) : \A j \in Spaces(text) : i <= j

LastSpace(text) == CHOOSE i \in Spaces(text) : \A j \in Spaces(text) : j <= i

\* the request of a line of three tokens
TokensAre(text, req) ==
    /\ req.Method = SubSeq(text, 1, FirstSpace(text) - 1)
    /\ req.Path = SubSeq(text, FirstSpace(text) + 1, LastSpace(text) - 1)
    /\ req.HTTPVersion = SubSeq(text, LastSpace(text) + 1, Len(text))

\* the parse of connection c ends in this step, by a result or by the deadline
ParseEnds(c) == pc[c] = "ReadingRequest" /\ armed[c] /\ pc'[c] # "ReadingRequest"

\* handleConnection returns in this step without a response, printing err
FatalWith(c, errs) ==
    /\ pc'[c] = "Closed"
    /\ ~open'[c]
    /\ wire'[c] = wire[c]
    /\ requests'[c] = requests[c]
    /\ Len(log'[c]) = Len(log[c]) + 1
    /\ log'[c][Len(log'[c])].line = "Error parsing request:"
    /\ log'[c][Len(log'[c])].err \in errs

\* C26: the parse yields a Request only from a head whose request line, the first
\* line, is three tokens with one space between them once trimmed, and then the
\* tokens are its method, path and version; for a head whose first line is
\* anything else (two or four tokens, two spaces in a row, a blank line) no
\* Request is made, no response is written and the connection is closed.
C26_RequestLineThreeTokens ==
    [][\A c \in Conns :
          /\ (ParseEnds(c) /\ pc'[c] = "Dispatching")
             => /\ HeadComplete(inbuf[c])
                /\ ThreeTokens(TrimSpace(RequestLineIn(InputLines(inbuf[c]))))
                /\ TokensAre(TrimSpace(RequestLineIn(InputLines(inbuf[c]))), LastRequest(c)')
                /\ Len(requests'[c]) = Len(requests[c]) + 1
          /\ (/\ ParseEnds(c)
              /\ HeadComplete(inbuf[c])
              /\ ~ThreeTokens(TrimSpace(RequestLineIn(InputLines(inbuf[c])))))
             => FatalWith(c, {ErrInvalidFormat, ErrReadingBody})]_vars

\* C26 witness: after a request whose line has spaces around its three tokens was
\* answered, the next head was refused as not being a request line of three
\* tokens and the connection was closed with that one response written.
C26_SecondLineRefused ==
    \E c \in Conns :
        /\ pc[c] = "Closed"
        /\ ~open[c]
        /\ Len(requests[c]) = 1
        /\ requests[c][1].Path = <<"/">>
        /\ Len(wire[c]) = 1
        /\ wire[c][1].StatusLine = StatusOK
        /\ Len(log[c]) = 1
        /\ log[c][1].err = ErrInvalidFormat
        /\ sent[c] = 2
        /\ inbuf[c] = << >>

\* the line has a colon
HasColon(line) == \E i \in 1..Len(line) : line[i] = ":"

FirstColon(line) == CHOOSE i \in 1..Len(line) : line[i] = ":" /\ \A j \in 1..(i - 1) : line[j] # ":"

\* the key and the value of a header line
HeaderKey(line) == ToLower(TrimSpace(SubSeq(line, 1, FirstColon(line) - 1)))

HeaderValue(line) == TrimSpace(SubSeq(line, FirstColon(line) + 1, Len(line)))

\* the header lines that set a key, and the one that sets it last
SetsKey(lines, key) == { i \in 1..Len(lines) : HasColon(lines[i]) /\ HeaderKey(lines[i]) = key }

LastOf(indexes) == CHOOSE i \in indexes : \A j \in indexes : j <= i

\* headers is the map the header lines give
HeadersFrom(lines, headers) ==
    /\ DOMAIN headers = { HeaderKey(lines[i]) : i \in { j \in 1..Len(lines) : HasColon(lines[j]) } }
    /\ \A key \in DOMAIN headers :
           headers[key] = HeaderValue(lines[LastOf(SetsKey(lines, key))])

\* C28: the headers of a parsed request are those of the lines between the
\* request line and the blank line that have a colon: the key is the text before
\* the first colon, trimmed and lower-cased, the value the text after it,
\* trimmed, of the last line with that key; a line without a colon adds nothing,
\* and a head with a request line of three tokens never fails but for its body.
C28_HeadersFromLines ==
    [][\A c \in Conns :
          /\ (ParseEnds(c) /\ pc'[c] = "Dispatching")
             => HeadersFrom(HeaderLinesIn(InputLines(inbuf[c])), LastRequest(c)'.Headers)
          /\ (/\ ParseEnds(c)
              /\ pc'[c] = "Closed"
              /\ HeadComplete(inbuf[c])
              /\ ThreeTokens(TrimSpace(RequestLineIn(InputLines(inbuf[c])))))
             => FatalWith(c, {ErrReadingBody})]_vars

\* C28 witness: the request with the lines " User-Agent : a:b ", "bogus line",
\* "USER-AGENT:c" and "X-Empty:" was parsed with user-agent = c and an empty
\* x-empty, and answered with c.
C28_LastWinsBogusSkipped ==
    \E c \in Conns :
        /\ Len(wire[c]) = 1
        /\ DOMAIN requests[c][1].Headers = { <<"u","s","e","r","-","a","g","e","n","t">>, <<"x","-","e","m","p","t","y">> }
        /\ requests[c][1].Headers[<<"u","s","e","r","-","a","g","e","n","t">>] = <<"c">>
        /\ requests[c][1].Headers[<<"x","-","e","m","p","t","y">>] = << >>
        /\ wire[c][1].Body = <<"c">>

\* the value of the content-length header the header lines give, empty without one
ContentLengthIn(lines) ==
    IF SetsKey(lines, <<"c","o","n","t","e","n","t","-","l","e","n","g","t","h">>) = {} THEN << >>
    ELSE HeaderValue(lines[LastOf(SetsKey(lines, <<"c","o","n","t","e","n","t","-","l","e","n","g","t","h">>))])

\* the number of body bytes the head asks for, 0 when content-length is not a
\* positive integer
BodyBytes(buf) ==
    IF Atoi(ContentLengthIn(HeaderLinesIn(InputLines(buf)))).ok
       /\ Atoi(ContentLengthIn(HeaderLinesIn(InputLines(buf)))).val > 0
    THEN Atoi(ContentLengthIn(HeaderLinesIn(InputLines(buf)))).val
    ELSE 0

\* the parse of a head of h bytes that asks for n body bytes
BodyFramed(c, h, n) ==
    IF Len(inbuf[c]) >= h + n
    THEN /\ inbuf'[c] = SubSeq(inbuf[c], h + n + 1, Len(inbuf[c]))
         /\ pc'[c] = "Dispatching" => LastRequest(c)'.Body = SubSeq(inbuf[c], h + 1, h + n)
         /\ pc'[c] = "Closed" => FatalWith(c, {ErrInvalidFormat})
    ELSE FatalWith(c, {ErrReadingBody})

\* C27: when the content-length of a complete head parses as a positive integer
\* N and N bytes follow the blank line, the body of the request is these N bytes
\* and the reader is left at the byte after them; when fewer than N bytes arrive
\* before the stream ends (or the deadline passes), no Request is made, no
\* response is written and the connection is closed.
C27_BodyIsNextBytes ==
    [][\A c \in Conns :
          (ParseEnds(c) /\ HeadComplete(inbuf[c]) /\ BodyBytes(inbuf[c]) > 0)
          => BodyFramed(c, HeadLength(inbuf[c]), BodyBytes(inbuf[c]))]_vars

\* C27 witness: an upload with Content-Length: 2 was parsed with the body "hi"
\* and answered; then a head asking for more bytes than arrived before the client
\* closed ended the connection with a body read error and no second response.
C27_BodyReadThenShortRead ==
    \E c \in Conns :
        /\ pc[c] = "Closed"
        /\ eof[c]
        /\ Len(requests[c]) = 1
        /\ requests[c][1].Body = <<"h","i">>
        /\ Len(wire[c]) = 1
        /\ Len(log[c]) = 1
        /\ log[c][1].err = ErrReadingBody

\* C27 witness of pipelining: two requests arrived before the first was parsed;
\* the first was parsed with its two body bytes and the second is what is left
\* in the reader.
C27_NextRequestFollowsBody ==
    \E c \in Conns :
        /\ pc[c] = "Dispatching"
        /\ Len(requests[c]) = 1
        /\ requests[c][1].Body = <<"h","i">>
        /\ inbuf[c] = ReqHeaders

(***************************************************************************)
(* Progress.  The specification SpecLive is the server of Spec under the   *)
(* scheduling of its goroutines: a step of handleConnection that can be    *)
(* taken is eventually taken, and a read that waits for bytes ends when    *)
(* its deadline passes.  Nothing is assumed of the clients.                *)
(***************************************************************************)
\* the chunks the clients of the specification SpecLive choose from
LiveMenu == { ReqPartial, ReqRoot, ReqUploadShort, ReqBadLine, ReqEchoClose }

NextLive == NextFor(Workers, LiveMenu)

\* connection c's parse can return: the deadline is armed and the parser does not
\* wait for bytes
CanParse(c) ==
    /\ pc[c] = "ReadingRequest"
    /\ armed[c]
    /\ parseRequestWithReader(inbuf[c], eof[c]).kind # "block"

\* connection c's read waits for bytes under an armed deadline
CanTimeOut(c) ==
    /\ pc[c] = "ReadingRequest"
    /\ armed[c]
    /\ parseRequestWithReader(inbuf[c], eof[c]).kind = "block"

\* weak fairness of ParseRequest, ReadTimeout and Dispatch, with the condition
\* under which each can be taken written out: the step is taken again and
\* again unless it is again and again impossible
FairParse(c) == []<>(~CanParse(c)) \/ []<><<ParseRequest(c)>>_vars

FairTimeout(c) == []<>(~CanTimeOut(c)) \/ []<><<ReadTimeout(c)>>_vars

FairDispatch(c) == []<>(pc[c] # "Dispatching") \/ []<><<Dispatch(c)>>_vars

SpecLive ==
    /\ Init
    /\ [][NextLive]_vars
    /\ \A c \in Workers :
          /\ WF_vars(Accept(c))
          /\ WF_vars(SetReadDeadline(c))
          /\ WF_vars(WriteResponse(c))
          /\ FairParse(c)
          /\ FairTimeout(c)
          /\ FairDispatch(c)

\* the reader of connection c has no complete request and the stream is open: a
\* parse waits for bytes
AwaitsBytes(c) ==
    /\ ~eof[c]
    /\ \/ ~HeadComplete(inbuf[c])
       \/ Len(inbuf[c]) < HeadLength(inbuf[c]) + BodyBytes(inbuf[c])

\* C29: a parse starts only with the deadline armed, and the deadline is armed
\* anew for the parse after a response; a parse that waits for bytes ends by the
\* deadline with the connection closed and nothing written, so every wait for a
\* request ends, and a connection that never got a complete request is in the
\* end closed with no response on it; every parse that ends without a Request
\* closes the connection.
C29_DeadlineEndsTheWait ==
    /\ [][\A c \in Conns :
            /\ (pc[c] = "ReadingRequest" /\ pc'[c] = "Dispatching") => armed[c]
            /\ (pc[c] = "ReadingRequest" /\ pc'[c] = "Closed" /\ ~armed[c])
               => log'[c][Len(log'[c])].line = "Error setting read deadline:"
            /\ (pc[c] # "ReadingRequest" /\ pc'[c] = "ReadingRequest") => ~armed'[c]
            /\ (ParseEnds(c) /\ AwaitsBytes(c))
               => FatalWith(c, {ErrReading, ErrReadingBody})
            /\ (ParseEnds(c) /\ requests'[c] = requests[c])
               => pc'[c] = "Closed" /\ ~open'[c] /\ wire'[c] = wire[c]]_vars
    /\ \A c \in Workers :
          /\ [](pc[c] = "ReadingRequest" => <>(pc[c] # "ReadingRequest"))
          /\ []((pc[c] = "ReadingRequest" /\ [](requests[c] = << >>))
                => <>(pc[c] = "Closed" /\ ~open[c] /\ wire[c] = << >>))

\* C29 witness: the client sent the start of a request line and nothing more,
\* without closing; the connection was closed by the deadline, with the read
\* error printed and nothing written.
C29_ClosedByDeadline ==
    \E c \in Conns :
        /\ pc[c] = "Closed"
        /\ ~open[c]
        /\ ~eof[c]
        /\ inbuf[c] = ReqPartial
        /\ requests[c] = << >>
        /\ wire[c] = << >>
        /\ Len(log[c]) = 1
        /\ log[c][1].err = ErrReading

(***************************************************************************)
(* Isolation.  The specification SpecPeers is two connections, each with   *)
(* its own handleConnection, whose clients send requests that fail in      *)
(* every way: a malformed line, an incomplete request, a 4xx, an upload    *)
(* that can fail, a write that can fail.                                   *)
(***************************************************************************)
\* the chunks the clients of the specification SpecPeers choose from
PeersMenu == { ReqBadLine, ReqPartial, ReqNotFound, ReqUpload }

NextPeers ==
    \E c \in ConcWorkers :
        \/ \E chunk \in PeersMenu : ConcClientSend(c, chunk)
        \/ Accept(c)
        \/ SetReadDeadline(c)
        \/ ParseRequest(c)
        \/ ReadTimeout(c)
        \/ Dispatch(c)
        \/ WriteResponse(c)

SpecPeers == InitConc /\ [][NextPeers]_vars

\* the state of connection d's worker and of its streams is as it was
Untouched(d) ==
    /\ pc'[d] = pc[d]
    /\ open'[d] = open[d]
    /\ armed'[d] = armed[d]
    /\ inbuf'[d] = inbuf[d]
    /\ eof'[d] = eof[d]
    /\ requests'[d] = requests[d]
    /\ response'[d] = response[d]
    /\ trace'[d] = trace[d]
    /\ ops'[d] = ops[d]
    /\ wire'[d] = wire[d]
    /\ log'[d] = log[d]

\* a step of connection c in which its handleConnection fails or answers 4xx or 5xx
Fails(c) ==
    \/ pc[c] # "Closed" /\ pc'[c] = "Closed"
    \/ Handled(c) /\ response'[c].StatusLine \notin {StatusOK, StatusCreated}

\* C30: a step of one connection (its parse failure, its timeout, its write
\* error, its 4xx or 5xx response) leaves the phase, the streams, the pending
\* request, the response and the printed lines of every other connection as
\* they were.
C30_FailuresStayLocal ==
    [][/\ \E c \in Conns : \A d \in Conns \ {c} : Untouched(d)
       /\ \A c \in Conns : Fails(c) => \A d \in Conns \ {c} : Untouched(d)]_vars

\* C30 witness: connection 1 was closed on a malformed request line with nothing
\* written, and connection 2 got its upload answered 201 and is open, waiting
\* for its next request.
C30_PeerServedAfterFailure ==
    /\ pc[1] = "Closed"
    /\ Len(log[1]) = 1
    /\ log[1][1].err = ErrInvalidFormat
    /\ wire[1] = << >>
    /\ pc[2] = "ReadingRequest"
    /\ open[2]
    /\ Len(wire[2]) = 1
    /\ wire[2][1].StatusLine = StatusCreated

(***************************************************************************)
(* A root directory that holds files when the server starts.  The          *)
(* specification SpecWriter is the server of Spec started on such a        *)
(* directory, with clients whose requests are answered with every status   *)
(* line and with empty and non-empty bodies.                               *)
(***************************************************************************)
\* the files in the root directory when the server starts: one of them empty,
\* one with two dots in its name
StoredFiles ==
    [p \in { <<"/","d","/","e">>, <<"/","d","/","a",".",".","b">> } |-> IF p = <<"/","d","/","e">> THEN << >> ELSE <<"z","z">>]

InitStored ==
    /\ directory = RootDirectory
    /\ fs = [files |-> StoredFiles, dirs |-> {Slash, RootDirectory}]
    /\ pc = [c \in Workers |-> "NotAccepted"]
    /\ open = [c \in Workers |-> FALSE]
    /\ armed = [c \in Workers |-> FALSE]
    /\ inbuf = [c \in Workers |-> << >>]
    /\ eof = [c \in Workers |-> FALSE]
    /\ sent = [c \in Workers |-> 0]
    /\ requests = [c \in Workers |-> << >>]
    /\ response = [c \in Workers |-> NoResponse]
    /\ trace = [c \in Workers |-> << >>]
    /\ ops = [c \in Workers |-> << >>]
    /\ wire = [c \in Workers |-> << >>]
    /\ log = [c \in Workers |-> << >>]

ReqDownloadEmpty == <<"G","E","T"," ","/","f","i","l","e","s","/","e"," ","H","T","T","P","/","1",".","1","\r","\n","A","c","c","e","p","t","-","E","n","c","o","d","i","n","g",":"," ","g","z","i","p","\r","\n","\r","\n">>

\* the chunks the clients of the specification SpecWriter choose from
WriterMenu ==
    { ReqRoot, ReqUpload, ReqUploadNoBody, ReqEchoPath, ReqPut, ReqOldEcho, ReqEchoEmpty,
      ReqDownloadEmpty, ReqDownload, ReqEchoGzip, ReqUserAgent }

NextWriter == NextFor(Workers, WriterMenu)

SpecWriter == InitStored /\ [][NextWriter]_vars

\* the response written in this step
JustWritten(c) == wire'[c][Len(wire'[c])]

\* written is what sendResponse makes of the response r
WrittenFrom(written, r) ==
    /\ written.StatusLine = r.StatusLine
    /\ written.Body = r.Body
    /\ "Content-Length" \in DOMAIN written.Headers <=> r.Body # << >>
    /\ \A k \in DOMAIN r.Headers \ {"Content-Length", "Content-Type"} :
           k \in DOMAIN written.Headers /\ written.Headers[k] = r.Headers[k]
    /\ IF r.Body = << >>
       THEN written.Headers = r.Headers
       ELSE /\ written.Headers["Content-Length"] = Itoa(Len(r.Body))
            /\ DOMAIN written.Headers = DOMAIN r.Headers \cup {"Content-Length", "Content-Type"}
            /\ written.Headers["Content-Type"] =
                  IF MapGet(r.Headers, "Content-Type") # << >>
                  THEN r.Headers["Content-Type"] ELSE <<"t","e","x","t","/","p","l","a","i","n">>

\* C31: a response is written with a Content-Length header exactly when its body
\* is not empty, and then the header is the length of the body and the
\* Content-Type is the one the handler set, text/plain when it set none; a
\* response with an empty body is written with the headers it has and no
\* Content-Length, whatever its status line, and every response whose status is
\* not 200 has an empty body.
C31_LengthOnlyWithBody ==
    /\ [][\A c \in Conns : WroteResponse(c) => WrittenFrom(JustWritten(c), response[c])]_vars
    /\ [](\A c \in Conns : \A i \in 1..Len(wire[c]) :
            /\ wire[c][i].StatusLine # StatusOK => wire[c][i].Body = << >>
            /\ wire[c][i].Body = << >> => "Content-Length" \notin DOMAIN wire[c][i].Headers
            /\ wire[c][i].Body # << >>
               => MapGet(wire[c][i].Headers, "Content-Type") \in { <<"t","e","x","t","/","p","l","a","i","n">>, OctetStream })

\* C31 witness: on a connection that stays open the empty file was downloaded,
\* answered 200 with its Content-Type and no Content-Length, and the user agent
\* was answered with Content-Type: text/plain and Content-Length: 8.
C31_EmptyDownloadNoLength ==
    \E c \in Conns :
        /\ pc[c] = "ReadingRequest"
        /\ open[c]
        /\ Len(wire[c]) = 2
        /\ \E i, j \in 1..2 :
              /\ requests[c][i].Path = <<"/","f","i","l","e","s","/","e">>
              /\ wire[c][i].StatusLine = StatusOK
              /\ wire[c][i].Body = << >>
              /\ MapGet(wire[c][i].Headers, "Content-Type") = OctetStream
              /\ "Content-Length" \notin DOMAIN wire[c][i].Headers
              /\ wire[c][j].Body = <<"f","o","o","b","a","r","/","1">>
              /\ MapGet(wire[c][j].Headers, "Content-Type") = <<"t","e","x","t","/","p","l","a","i","n">>
              /\ MapGet(wire[c][j].Headers, "Content-Length") = <<"8">>

(***************************************************************************)
(* Requests without a body.  The specification SpecBody is the server of   *)
(* Spec with clients whose requests have no content-length, one that is    *)
(* not a number, zero, negative or positive, and bytes after the blank     *)
(* line.                                                                   *)
(***************************************************************************)
ReqZeroThenEcho == <<"P","O","S","T"," ","/","f","i","l","e","s","/","a"," ","H","T","T","P","/","1",".","1","\r","\n","C","o","n","t","e","n","t","-","L","e","n","g","t","h",":"," ","0","\r","\n","\r","\n","G","E","T"," ","/","e","c","h","o","/","x"," ","H","T","T","P","/","1",".","1","\r","\n","\r","\n">>
ReqZeros == <<"P","O","S","T"," ","/","f","i","l","e","s","/","b"," ","H","T","T","P","/","1",".","1","\r","\n","C","o","n","t","e","n","t","-","L","e","n","g","t","h",":"," ","0","0","\r","\n","\r","\n">>
ReqNegBody == <<"P","O","S","T"," ","/","f","i","l","e","s","/","a"," ","H","T","T","P","/","1",".","1","\r","\n","C","o","n","t","e","n","t","-","L","e","n","g","t","h",":"," ","-","2","\r","\n","\r","\n","h","i">>
ReqNoLengthBody == <<"G","E","T"," ","/","e","c","h","o","/","a"," ","H","T","T","P","/","1",".","1","\r","\n","\r","\n","h","i">>

\* the chunks the clients of the specification SpecBody choose from
BodyMenu ==
    { ReqRoot, ReqBodyText, ReqZeroThenEcho, ReqZeros, ReqNegBody, ReqNoLengthBody,
      ReqUpload, ReqBodyPlus, ReqDupLength, ReqUploadBelow }

NextBody == NextFor(Workers, BodyMenu)

SpecBody == Init /\ [][NextBody]_vars

\* the text is decimal digits, at least one
AllDigits(text) == text # << >> /\ \A i \in 1..Len(text) : IsDigit(text[i])

\* the value of a content-length header is one that asks for a body: decimal
\* digits, not all of them 0, with or without a plus sign before them
UsableLength(value) ==
    LET digits == IF value # << >> /\ Head(value) = "+" THEN Tail(value) ELSE value
    IN  AllDigits(digits) /\ \E i \in 1..Len(digits) : digits[i] # "0"

\* the content-length of the head at the front of the reader of connection c
LengthAsked(c) == ContentLengthIn(HeaderLinesIn(InputLines(inbuf[c])))

\* the bytes of the reader of connection c after the head at its front
AfterHead(c) == SubSeq(inbuf[c], HeadLength(inbuf[c]) + 1, Len(inbuf[c]))

\* C32: when the content-length of a complete head is absent, not a number, zero
\* or negative, the parse consumes the head and nothing more: the request it
\* yields has no body, and the bytes after the blank line are left in the reader;
\* the reader is left as it is by the dispatch and by the writing of the
\* response, so that these bytes are the start of what the next parse reads.
C32_NoBodyWithoutUsableLength ==
    [][\A c \in Conns :
          /\ (ParseEnds(c) /\ HeadComplete(inbuf[c]) /\ ~UsableLength(LengthAsked(c)))
             => /\ inbuf'[c] = AfterHead(c)
                /\ pc'[c] = "Dispatching" => LastRequest(c)'.Body = << >>
                /\ pc'[c] = "Closed" => FatalWith(c, {ErrInvalidFormat})
          /\ (pc[c] \in {"Dispatching", "WritingResponse"} /\ pc'[c] # pc[c])
             => inbuf'[c] = inbuf[c]]_vars

\* C32 witness: one chunk was received, an upload with Content-Length: 0 followed
\* by an echo request; the upload was parsed without a body and answered 400,
\* then the echo request was parsed from the bytes left and answered 200 with x.
C32_LeftoverIsNextRequest ==
    \E c \in Conns :
        /\ sent[c] = 1
        /\ Len(requests[c]) = 2
        /\ requests[c][1].Method = <<"P","O","S","T">>
        /\ requests[c][1].Headers[<<"c","o","n","t","e","n","t","-","l","e","n","g","t","h">>] = <<"0">>
        /\ requests[c][1].Body = << >>
        /\ requests[c][2].Path = <<"/","e","c","h","o","/","x">>
        /\ Len(wire[c]) = 2
        /\ wire[c][1].StatusLine = StatusBadRequest
        /\ wire[c][2].StatusLine = StatusOK
        /\ wire[c][2].Body = <<"x">>
        /\ inbuf[c] = << >>

\* the content-length of a parsed request, empty without one
LengthOf(req) == MapGet(req.Headers, <<"c","o","n","t","e","n","t","-","l","e","n","g","t","h">>)

\* the files of the filesystem after this step that were not there before it
FilesCreated == DOMAIN fs'.files \ DOMAIN fs.files

ReqUploadDots == <<"P","O","S","T"," ","/","f","i","l","e","s","/","a",".",".","b"," ","H","T","T","P","/","1",".","1","\r","\n","C","o","n","t","e","n","t","-","L","e","n","g","t","h",":"," ","2","\r","\n","\r","\n","h","i">>
ReqDownloadDots == <<"G","E","T"," ","/","f","i","l","e","s","/","a",".",".","b"," ","H","T","T","P","/","1",".","1","\r","\n","\r","\n">>
ReqDownloadDotsTxt == <<"G","E","T"," ","/","f","i","l","e","s","/","n","o","t","e","s",".",".","t","x","t"," ","H","T","T","P","/","1",".","1","\r","\n","\r","\n">>
ReqUploadDotsBelow == <<"P","O","S","T"," ","/","f","i","l","e","s","/","x","/",".",".","/","c","/",".",".","a"," ","H","T","T","P","/","1",".","1","\r","\n","C","o","n","t","e","n","t","-","L","e","n","g","t","h",":"," ","1","\r","\n","\r","\n","x">>
ReqDownloadThreeDots == <<"G","E","T"," ","/","f","i","l","e","s","/",".",".","."," ","H","T","T","P","/","1",".","1","\r","\n","\r","\n">>
ReqDownloadCleaned == <<"G","E","T"," ","/","f","i","l","e","s","/","x","/",".",".","/","e"," ","H","T","T","P","/","1",".","1","\r","\n","\r","\n">>

\* the chunks the clients of the specification SpecDots choose from
DotsMenu ==
    { ReqUploadDots, ReqDownloadDots, ReqDownloadDotsTxt, ReqUploadDotsBelow,
      ReqDownloadThreeDots, ReqDownloadCleaned, ReqTraversal, ReqUpload, ReqDownload,
      ReqDownloadEmpty }

NextDots == NextFor(Workers, DotsMenu)

SpecDots == InitStored /\ [][NextDots]_vars

\* the text has two dots in a row
TwoDots(text) == \E i \in 1..(Len(text) - 1) : text[i] = "." /\ text[i + 1] = "."

\* C35: a GET or POST of a /files/ path whose normalized remainder has two dots
\* in a row anywhere is answered 400 with an empty body by handleFiles, with no
\* call on the filesystem, which is left as it was; so no file whose name has two
\* dots in a row is ever created, and the stored file a..b is never served.
C35_TwoDotsRefused ==
    /\ [][\A c \in Conns :
             (/\ Handled(c)
              /\ Routed(LastRequest(c))
              /\ IsFilesPath(LastRequest(c))
              /\ TwoDots(Remainder(LastRequest(c))))
             => /\ response'[c].StatusLine = StatusBadRequest
                /\ response'[c].Body = << >>
                /\ ops'[c] = << >>
                /\ fs' = fs]_vars
    /\ [](\A p \in DOMAIN fs.files : TwoDots(p) => p \in DOMAIN StoredFiles /\ fs.files[p] = StoredFiles[p])
    /\ [](\A c \in Conns : \A i \in 1..Len(wire[c]) :
            TwoDots(requests[c][i].Path) /\ wire[c][i].StatusLine = StatusOK
            => ~TwoDots(Remainder(requests[c][i])))

\* C35 witness: with the file a..b in the root directory, an upload of /files/a..b
\* and a download of /files/a..b were both answered 400, and the files are as
\* they were.
C35_DottedNameRefusedBothWays ==
    \E c \in Conns :
        /\ Len(wire[c]) = 2
        /\ requests[c][1].Method = POST
        /\ requests[c][1].Path = <<"/","f","i","l","e","s","/","a",".",".","b">>
        /\ requests[c][1].Body = <<"h","i">>
        /\ wire[c][1].StatusLine = StatusBadRequest
        /\ requests[c][2].Method = GET
        /\ requests[c][2].Path = <<"/","f","i","l","e","s","/","a",".",".","b">>
        /\ wire[c][2].StatusLine = StatusBadRequest
        /\ <<"/","d","/","a",".",".","b">> \in DOMAIN fs.files
        /\ fs.files = StoredFiles

(***************************************************************************)
(* Uploads below a directory that does not exist yet.  The specification   *)
(* SpecNested is the server of SpecConc with clients that upload to        *)
(* /files/a/b, under the scheduling of the goroutines: a connection that   *)
(* was accepted is served, and a response that is ready is written.        *)
(***************************************************************************)
\* the chunks the clients of the specification SpecNested choose from
NestedMenu == { ReqUploadBelow, ReqUpload, ReqUploadNoBody }

NextNested ==
    \E c \in ConcWorkers :
        \/ \E chunk \in NestedMenu : ConcClientSend(c, chunk)
        \/ Accept(c)
        \/ SetReadDeadline(c)
        \/ ParseRequest(c)
        \/ ReadTimeout(c)
        \/ DispatchOther(c)
        \/ UploadMkdirAll(c)
        \/ UploadStat(c)
        \/ UploadWrite(c)
        \/ WriteResponse(c)

SpecNested ==
    /\ InitConc
    /\ [][NextNested]_vars
    /\ \A c \in ConcWorkers :
          /\ WF_vars(Accept(c))
          /\ WF_vars(SetReadDeadline(c))
          /\ WF_vars(WriteResponse(c))

\* the directories there are when the server starts
DirsAtStart == {Slash, directory}

\* connection c is in its first upload, after os.MkdirAll and before os.Stat, and
\* no other connection has had a request handled: the directory of the target,
\* which was not there when the server started, was made by this upload
MadeDirectory(c) ==
    /\ pc[c] = "UploadStat"
    /\ Len(requests[c]) = 1
    /\ \A d \in Conns \ {c} : requests[d] = << >>
    /\ Dir(TargetOf(c)) \notin DirsAtStart
    /\ Dir(TargetOf(c)) \in fs.dirs

\* the first request of connection c was answered 400 or 409
FirstRefused(c) ==
    /\ Len(requests[c]) = 1
    /\ pc[c] = "WritingResponse"
    /\ response[c].StatusLine \in {StatusBadRequest, StatusConflict}

\* C33 as claimed: an upload answered 400 or 409 leaves the filesystem as it
\* was: the step in which handleFileUpload or handleFiles returns 400 or 409
\* changes nothing, and an
\* upload that made a directory is not answered 400 or 409 afterwards.
C33_RefusedUploadChangesNothing ==
    /\ [][\A c \in Conns :
             (/\ pc[c] \in {"Dispatching", "UploadStat", "UploadWrite"}
              /\ pc'[c] = "WritingResponse"
              /\ LastRequest(c).Method = POST
              /\ IsFilesPath(LastRequest(c))
              /\ response'[c].StatusLine \in {StatusBadRequest, StatusConflict})
             => fs' = fs]_vars
    /\ \A c \in ConcWorkers : [](MadeDirectory(c) => [](~FirstRefused(c)))

\* with the handler taken in one step, as it is when no other connection is
\* served meanwhile, an upload answered 400 or 409 changes nothing: this holds
\* under SpecFiles and SpecBody
RefusedUploadAloneChangesNothing ==
    [][\A c \in Conns :
          (/\ Handled(c)
           /\ LastRequest(c).Method = POST
           /\ IsFilesPath(LastRequest(c))
           /\ response'[c].StatusLine \in {StatusBadRequest, StatusConflict})
          => fs' = fs]_vars
====
